---- MODULE Spec2Model ----
(***************************************************************************)
(* A model of the G-Core MCP server: the SDK method discovery engine and   *)
(* its process-wide cache (core/inspection.py), the tool selection engine  *)
(* (config/toolsets.py, config/settings.py) and the server start-up that   *)
(* registers the selected tools (server.py).                               *)
(*                                                                         *)
(* Python strings are TLA+ strings; a character of a string s is the       *)
(* one-character string SubSeq(s, i, i).  A Python dict is the sequence of *)
(* its [key, val] items in insertion order.  A raised exception is the     *)
(* field exc of an operator's result ("none" when the code returns).       *)
(***************************************************************************)
EXTENDS Integers, Sequences, FiniteSets, TLC

VARIABLES
    shape,      \* the choices that fix the object graph of the main client
    cache,      \* _resource_methods_cache: NoCache or a catalog instance
    nextId,     \* identity of the next dict object inspect_sdk_methods allocates
    ret,        \* outcome of the last call: what it returned or raised
    walks,      \* traversals completed since the cache was last absent-by-clear
    prev,       \* the instance a caller still holds from before the last clear
    calls,      \* number of calls made (bounded by MaxCalls)
    env,        \* os.environ[GCORE_TOOLS]: Unset or [set |-> TRUE, val |-> string]
    sel,        \* outcome of the last tool-selection operation
    tools,      \* the tools added to the FastMCP application, in order
    callers     \* where each concurrent caller of inspect_sdk_methods stands

vars == <<shape, cache, nextId, ret, walks, prev, calls, env, sel, tools,
          callers>>

discVars == <<shape, cache, nextId, ret, walks, prev, calls>>
selVars == <<env, sel, tools>>

(***************************************************************************)
(* Bounds of the model.                                                    *)
(***************************************************************************)
MaxCalls == 4

\* the longest resource path a nested _inspect_recursive call is entered
\* with: a deeper call ends in the interpreter's RecursionError
RecursionLimit == 5

(***************************************************************************)
(* Strings.                                                                *)
(***************************************************************************)
CharAt(s, i) == SubSeq(s, i, i)

\* the grave accent, a character a string literal cannot end with
Backtick == SubSeq("`'", 1, 1)

\* str.startswith(prefix)
StartsWith(s, prefix) ==
    /\ Len(s) >= Len(prefix)
    /\ SubSeq(s, 1, Len(prefix)) = prefix

\* index of the first occurrence of character c in s at or after i, or 0
RECURSIVE FindChar(_, _, _)
FindChar(s, c, i) ==
    IF i > Len(s) THEN 0
    ELSE IF CharAt(s, i) = c THEN i
    ELSE FindChar(s, c, i + 1)

\* str.split(sep) for a one-character separator: the list of the pieces
RECURSIVE Split(_, _)
Split(s, sep) ==
    LET k == FindChar(s, sep, 1) IN
    IF k = 0 THEN <<s>>
    ELSE <<SubSeq(s, 1, k - 1)>> \o Split(SubSeq(s, k + 1, Len(s)), sep)

\* sep.join(parts)
RECURSIVE Join(_, _)
Join(parts, sep) ==
    IF Len(parts) = 0 THEN ""
    ELSE IF Len(parts) = 1 THEN parts[1]
    ELSE parts[1] \o sep \o Join(Tail(parts), sep)

(***************************************************************************)
(* Python dicts as insertion-ordered sequences of items.                   *)
(***************************************************************************)
EmptyDict == <<>>

HasKey(d, k) == \E i \in 1..Len(d) : d[i].key = k

DictGet(d, k, default) ==
    IF HasKey(d, k)
    THEN d[CHOOSE i \in 1..Len(d) : d[i].key = k].val
    ELSE default

\* d[k] = v: an existing key keeps its position, a new key goes last
DictPut(d, k, v) ==
    IF HasKey(d, k)
    THEN [i \in 1..Len(d) |-> IF d[i].key = k THEN [key |-> k, val |-> v] ELSE d[i]]
    ELSE Append(d, [key |-> k, val |-> v])

DictKeys(d) == [i \in 1..Len(d) |-> d[i].key]

(***************************************************************************)
(* The object graph handed to the discovery engine.  A node is an object:  *)
(*   module  - what inspect.getmodule(obj.__class__) does: res = "ok" and   *)
(*             the module's __name__, res = "none" (returns None), or      *)
(*             res = "raises";                                             *)
(*   methods - inspect.getmembers(obj, inspect.ismethod), sorted by name;  *)
(*             raises is what resolving the method's signature, docstring  *)
(*             and type hints raises ("none" when it succeeds);            *)
(*   attrs   - inspect.getmembers(obj, not isroutine), sorted by name,     *)
(*             each with the node the attribute holds.                     *)
(* For the client, attrs lists every member (inspect.getmembers(client));  *)
(* a bound method of the client is a member whose class is builtins'.      *)
(***************************************************************************)
Mod(name) == [res |-> "ok", name |-> name]
NoModule == [res |-> "none", name |-> ""]
ModuleRaises == [res |-> "raises", name |-> ""]

M(name, raises) == [name |-> name, raises |-> raises]
A(name, to) == [name |-> name, to |-> to]

Node(module, methods, attrs) ==
    [module |-> module, methods |-> methods, attrs |-> attrs]

SdkModule == Mod("gcore.resources.cloud")
BuiltinObject == Node(Mod("builtins"), <<>>, <<>>)

\* method lists a node may carry
MethodChoices ==
    { <<>>,
      <<M("create", "none"), M("list", "none")>>,
      <<M("list", "ValueError")>>,
      <<M("create", "NameError"), M("list", "none")>>,
      <<M("_update", "none"), M("copy", "none"), M("list", "none")>> }

ServiceMethodChoices ==
    { <<>>,
      <<M("list", "ValueError")>>,
      <<M("create", "NameError"), M("list", "none")>>,
      <<M("_update", "none"), M("copy", "none"), M("list", "none")>> }

SubMethodChoices ==
    { <<M("create", "none"), M("list", "none")>>,
      <<M("create", "NameError"), M("list", "none")>> }

ResourceNames == {"_options", "instances", "with_raw_response"}
ResourceModules == {SdkModule, Mod("gcorelib.utils"), NoModule, ModuleRaises}
SubModules == {SdkModule, ModuleRaises}

Shapes ==
    [svcMeths : ServiceMethodChoices,
     resName : ResourceNames, resMod : ResourceModules, resMeths : MethodChoices,
     subMod : SubModules, subMeths : SubMethodChoices]

\* the main client: client.cloud.<resName>.images and client.cloud.zones, next
\* to private, denylisted and foreign members
MainGraph(sh) ==
    [n \in 0..7 |->
        CASE n = 0 -> Node(Mod("gcore._client"), <<>>,
                           <<A("_client", 4), A("api_key", 5), A("cloud", 1),
                             A("copy", 5), A("with_raw_response", 6)>>)
          [] n = 1 -> Node(SdkModule, sh.svcMeths,
                           <<A(sh.resName, 2), A("zones", 7)>>)
          [] n = 2 -> Node(sh.resMod, sh.resMeths,
                           <<A("images", 3), A("with_streaming_response", 6)>>)
          [] n = 3 -> Node(sh.subMod, sh.subMeths, <<>>)
          [] n = 4 -> Node(SdkModule, <<M("list", "none")>>, <<>>)
          [] n = 5 -> BuiltinObject
          [] n = 6 -> Node(SdkModule, <<M("list", "none")>>, <<>>)
          [] n = 7 -> Node(SdkModule,
                           <<M("create", "none"), M("delete", "none"),
                             M("export", "TypeError")>>, <<>>)]

\* another client object: client.dns with a method of its own and one
\* resource, and client.storage with one method
OtherGraph ==
    [n \in 0..4 |->
        CASE n = 0 -> Node(Mod("gcore._client"), <<>>,
                           <<A("base_url", 3), A("dns", 1), A("storage", 4)>>)
          [] n = 1 -> Node(Mod("gcore.resources.dns"),
                           <<M("lookup", "none")>>, <<A("zones", 2)>>)
          [] n = 2 -> Node(Mod("gcore.resources.dns"),
                           <<M("get", "none"), M("list", "none")>>, <<>>)
          [] n = 3 -> BuiltinObject
          [] n = 4 -> Node(Mod("gcore.resources.storage"),
                           <<M("usage", "none")>>, <<>>)]

\* the client the server process constructs: client.cloud with the resources
\* instances (and instances.flavors), load_balancers (with l7_policies and
\* l7policies), projects and volumes
ServerGraph ==
    [n \in 0..8 |->
        CASE n = 0 -> Node(Mod("gcore._client"), <<>>, <<A("cloud", 1)>>)
          [] n = 1 -> Node(SdkModule, <<>>,
                           <<A("instances", 2), A("load_balancers", 6),
                             A("projects", 4), A("volumes", 5)>>)
          [] n = 2 -> Node(SdkModule,
                           <<M("create", "none"), M("delete", "none"),
                             M("list", "none")>>,
                           <<A("flavors", 3)>>)
          [] n = 3 -> Node(SdkModule,
                           <<M("list", "none"), M("list_suitable", "none")>>,
                           <<>>)
          [] n = 4 -> Node(SdkModule,
                           <<M("get", "none"), M("list", "none")>>, <<>>)
          [] n = 5 -> Node(SdkModule,
                           <<M("create", "none"), M("delete", "none")>>, <<>>)
          [] n = 6 -> Node(SdkModule, <<>>,
                           <<A("l7_policies", 7), A("l7policies", 8)>>)
          [] n = 7 -> Node(SdkModule, <<M("list", "none")>>, <<>>)
          [] n = 8 -> Node(SdkModule, <<M("list", "none")>>, <<>>)]

\* graph g without the members whose resolution fails
WithoutFailingMembers(g) ==
    [n \in DOMAIN g |->
        [g[n] EXCEPT
            !.methods = SelectSeq(@, LAMBDA m : m.raises = "none"),
            !.attrs = SelectSeq(@, LAMBDA a : g[a.to].module.res # "raises")]]

\* the main client with a back reference: client.cloud.<resName>.images.parent
\* is client.cloud.<resName>
CyclicGraph(sh) ==
    [MainGraph(sh) EXCEPT ![3].attrs = <<A("parent", 2)>>]

Clients == {"main", "other"}

Graph(sh, c) ==
    IF c = "main" THEN MainGraph(sh)
    ELSE IF c = "other" THEN OtherGraph
    ELSE IF c = "clean" THEN WithoutFailingMembers(MainGraph(sh))
    ELSE IF c = "cyclic" THEN CyclicGraph(sh)
    ELSE ServerGraph

(***************************************************************************)
(* core/inspection.py                                                      *)
(***************************************************************************)
NoCache == [present |-> FALSE]
Instance(id, content, client) ==
    [present |-> TRUE, id |-> id, content |-> content, client |-> client]

\* skip_names of _inspect_recursive
skip_names ==
    {"_client", "_version", "_qs", "_session", "_options", "_params",
     "_response_timeout", "api_key", "project_id", "region_id",
     "with_raw_response", "with_streaming_response", "copy", "model_copy"}

\* skip_top_level of inspect_sdk_methods
skip_top_level ==
    {"api_key", "project_id", "region_id", "with_raw_response",
     "with_streaming_response", "copy", "model_copy", "from_env"}

\* a test that takes no name for private
IsPrivate_Never(name) == FALSE

\* name.startswith('_')
IsPrivate(name) == StartsWith(name, "_")

\* the except clause of the method loops: except (ValueError, TypeError)
CaughtByMethodLoop(e) == e \in {"ValueError", "TypeError"}

\* the record stored for a method; method_obj is the bound method
MethodRecord(c, n, m) ==
    [method_obj |-> [client |-> c, node |-> n, name |-> m.name]]

\* attr_module and attr_module.__name__.startswith(base_module_name)
InSdkNamespace(module, base_module_name) ==
    /\ module.res = "ok"
    /\ StartsWith(module.name, base_module_name)

\* the element of a one-element set: Only({ e(x) : x \in {v} }) is e(x)
\* with the local x bound to the value of v
Only(S) == CHOOSE x \in S : TRUE

\* The method loop of _inspect_recursive from its i-th member on: the entry
\* built so far, and the exception that ends the loop early.
RECURSIVE RecursiveMethodLoop(_, _, _, _, _)
RecursiveMethodLoop(c, n, meths, i, entry) ==
    IF i > Len(meths) THEN [entry |-> entry, exc |-> "none"]
    ELSE LET m == meths[i] IN
         IF IsPrivate(m.name) \/ m.name \in skip_names
         THEN RecursiveMethodLoop(c, n, meths, i + 1, entry)
         ELSE IF m.raises = "none"
         THEN Only({ RecursiveMethodLoop(c, n, meths, i + 1, e) :
                     e \in {DictPut(entry, m.name, MethodRecord(c, n, m))} })
         ELSE IF CaughtByMethodLoop(m.raises)
         THEN RecursiveMethodLoop(c, n, meths, i + 1, entry)
         ELSE [entry |-> entry, exc |-> m.raises]

\* _inspect_recursive(obj, current_path_parts, methods_dict, base_module_name):
\* methods_dict as the call leaves it, and the exception it raises.
RECURSIVE InspectRecursive(_, _, _, _, _, _)
RECURSIVE RecursiveAttrLoop(_, _, _, _, _, _, _)
InspectRecursive(g, c, n, parts, methods_dict, base) ==
    LET current_path == Join(parts, ".")
        known == HasKey(methods_dict, current_path)
        \* what the method loop leaves in methods_dict: resource_entry is
        \* the dict object stored under an existing key
        Shared(loop) == IF known
                        THEN DictPut(methods_dict, current_path, loop.entry)
                        ELSE methods_dict
        \* if resource_entry: methods_dict[current_path] = resource_entry
        Stored(loop) == IF Len(loop.entry) > 0
                        THEN DictPut(methods_dict, current_path, loop.entry)
                        ELSE Shared(loop)
    IN  IF Len(parts) > RecursionLimit
        THEN [dict |-> methods_dict, exc |-> "RecursionError"]
        ELSE
        Only({ IF loop.exc # "none"
               THEN [dict |-> Shared(loop), exc |-> loop.exc]
               ELSE Only({ RecursiveAttrLoop(g, c, n, parts, d, base, 1) :
                           d \in {Stored(loop)} }) :
               loop \in {RecursiveMethodLoop(
                             c, n, g[n].methods, 1,
                             DictGet(methods_dict, current_path, EmptyDict))} })

\* the attribute loop of _inspect_recursive from its i-th member on
RecursiveAttrLoop(g, c, n, parts, methods_dict, base, i) ==
    IF i > Len(g[n].attrs) THEN [dict |-> methods_dict, exc |-> "none"]
    ELSE LET a == g[n].attrs[i] IN
         IF IsPrivate(a.name) \/ a.name \in skip_names
         THEN RecursiveAttrLoop(g, c, n, parts, methods_dict, base, i + 1)
         ELSE IF g[a.to].module.res = "raises"
         THEN \* except Exception: pass
              RecursiveAttrLoop(g, c, n, parts, methods_dict, base, i + 1)
         ELSE IF InSdkNamespace(g[a.to].module, base)
         THEN \* an exception of the nested call is swallowed as well; what the
              \* nested call wrote into methods_dict stays
              Only({ RecursiveAttrLoop(g, c, n, parts, r.dict, base, i + 1) :
                     r \in {InspectRecursive(g, c, a.to, Append(parts, a.name),
                                             methods_dict, base)} })
         ELSE RecursiveAttrLoop(g, c, n, parts, methods_dict, base, i + 1)

\* The loop of inspect_sdk_methods over the methods bound to a service object
\* (lines 129-148) from the i-th member on.
RECURSIVE ServiceMethodLoop(_, _, _, _, _, _)
ServiceMethodLoop(c, n, service_name, meths, i, inspected_methods) ==
    IF i > Len(meths) THEN [dict |-> inspected_methods, exc |-> "none"]
    ELSE LET m == meths[i]
             \* if resource_path not in inspected_methods: ... = {}
             opened == IF HasKey(inspected_methods, service_name)
                       THEN inspected_methods
                       ELSE DictPut(inspected_methods, service_name, EmptyDict)
         IN  IF IsPrivate(m.name)
             THEN ServiceMethodLoop(c, n, service_name, meths, i + 1,
                                    inspected_methods)
             ELSE IF m.raises = "none"
             THEN Only({ ServiceMethodLoop(c, n, service_name, meths, i + 1, d) :
                         d \in {DictPut(opened, service_name,
                                    DictPut(DictGet(opened, service_name, EmptyDict),
                                            m.name, MethodRecord(c, n, m)))} })
             ELSE IF CaughtByMethodLoop(m.raises)
             THEN Only({ ServiceMethodLoop(c, n, service_name, meths, i + 1, d) :
                         d \in {opened} })
             ELSE [dict |-> opened, exc |-> m.raises]

\* The loop of inspect_sdk_methods over the attributes of a service object
\* (lines 120-126) from the i-th member on.
RECURSIVE ServiceAttrLoop(_, _, _, _, _, _, _)
ServiceAttrLoop(g, c, n, service_name, inspected_methods, base, i) ==
    IF i > Len(g[n].attrs) THEN [dict |-> inspected_methods, exc |-> "none"]
    ELSE LET a == g[n].attrs[i] IN
         IF IsPrivate(a.name)
         THEN ServiceAttrLoop(g, c, n, service_name, inspected_methods, base, i + 1)
         ELSE IF g[a.to].module.res = "raises"
         THEN [dict |-> inspected_methods, exc |-> "Exception"]
         ELSE IF InSdkNamespace(g[a.to].module, base)
         THEN Only({ IF r.exc # "none" THEN r
                     ELSE ServiceAttrLoop(g, c, n, service_name, r.dict, base,
                                          i + 1) :
                     r \in {InspectRecursive(g, c, a.to, <<service_name, a.name>>,
                                             inspected_methods, base)} })
         ELSE ServiceAttrLoop(g, c, n, service_name, inspected_methods, base, i + 1)

\* One pass of the loop of inspect_sdk_methods over the members of the
\* client (lines 109-148), for the i-th member.
ServiceStep(g, c, inspected_methods, base, i) ==
    LET s == g[0].attrs[i] IN
    IF IsPrivate(s.name) \/ s.name \in skip_top_level
    THEN [dict |-> inspected_methods, exc |-> "none"]
    ELSE IF g[s.to].module.res = "raises"
    THEN [dict |-> inspected_methods, exc |-> "Exception"]
    ELSE IF ~InSdkNamespace(g[s.to].module, base)
    THEN [dict |-> inspected_methods, exc |-> "none"]
    ELSE Only({ IF r1.exc # "none" THEN r1
                ELSE ServiceMethodLoop(c, s.to, s.name, g[s.to].methods, 1,
                                       r1.dict) :
                r1 \in {ServiceAttrLoop(g, c, s.to, s.name,
                                        inspected_methods, base, 1)} })

\* a loop that is over after the first member of the client
LoopDone_AfterFirst(g, i) == i > 1

\* the loop over inspect.getmembers(client) has no i-th member left
LoopDone(g, i) == i > Len(g[0].attrs)

\* The loop of inspect_sdk_methods over the members of the client (lines
\* 109-148) from the i-th member on.
RECURSIVE ServiceLoop(_, _, _, _, _)
ServiceLoop(g, c, inspected_methods, base, i) ==
    IF i > Len(g[0].attrs) THEN [dict |-> inspected_methods, exc |-> "none"]
    ELSE Only({ IF r.exc # "none" THEN r
                ELSE ServiceLoop(g, c, r.dict, base, i + 1) :
                r \in {ServiceStep(g, c, inspected_methods, base, i)} })

\* client_module.__name__.split('.')[0] if client_module else "gcore"
BaseModuleName(g) ==
    IF g[0].module.res = "ok" THEN Split(g[0].module.name, ".")[1] ELSE "gcore"

\* The traversal of inspect_sdk_methods (lines 97-148): the catalog built, and
\* the exception that aborts the pass.
Traverse(g, c) ==
    IF g[0].module.res = "raises"
    THEN [dict |-> EmptyDict, exc |-> "Exception"]
    ELSE ServiceLoop(g, c, EmptyDict, BaseModuleName(g), 1)

\* a cache check that never hits
CacheHit_Never(ch) == FALSE

\* if _resource_methods_cache is not None: return _resource_methods_cache
CacheHit(ch) == ch.present

\* an inspect_sdk_methods whose cache serves only the client it was built from
InspectSdkMethods_PerClient(g, c, ch, id) ==
    IF ch.present /\ ch.client = c
    THEN [kind |-> "return", inst |-> ch, cache |-> ch, walked |-> FALSE,
          exc |-> "none"]
    ELSE Only({ IF t.exc # "none"
                THEN [kind |-> "raise", inst |-> NoCache, cache |-> ch,
                      walked |-> FALSE, exc |-> t.exc]
                ELSE [kind |-> "return", inst |-> Instance(id, t.dict, c),
                      cache |-> Instance(id, t.dict, c),
                      walked |-> TRUE, exc |-> "none"] :
                t \in {Traverse(g, c)} })

\* inspect_sdk_methods(client) in a state with cache ch and next object
\* identity id: the outcome (kind "return" with the instance, or "raise"), the
\* cache it leaves and whether it walked the graph.
InspectSdkMethods(g, c, ch, id) ==
    IF CacheHit(ch)
    THEN [kind |-> "return", inst |-> ch, cache |-> ch, walked |-> FALSE,
          exc |-> "none"]
    ELSE Only({ IF t.exc # "none"
                THEN [kind |-> "raise", inst |-> NoCache, cache |-> ch,
                      walked |-> FALSE, exc |-> t.exc]
                ELSE [kind |-> "return", inst |-> Instance(id, t.dict, c),
                      cache |-> Instance(id, t.dict, c),
                      walked |-> TRUE, exc |-> "none"] :
                t \in {Traverse(g, c)} })

\* the methods of a resource yielded last to first
IterEntry_Reversed(resource_path, methods, j) ==
    [k \in 1..(Len(methods) + 1 - j) |->
        [full_name |-> resource_path \o "." \o methods[Len(methods) + 1 - k].key,
         method_obj |-> methods[Len(methods) + 1 - k].val.method_obj]]

\* the pairs iter_sdk_methods yields for catalog content d, from item i on
RECURSIVE IterCatalog(_, _)
RECURSIVE IterEntry(_, _, _)
IterEntry(resource_path, methods, j) ==
    IF j > Len(methods) THEN <<>>
    ELSE <<[full_name |-> resource_path \o "." \o methods[j].key,
            method_obj |-> methods[j].val.method_obj]>>
         \o IterEntry(resource_path, methods, j + 1)

IterCatalog(d, i) ==
    IF i > Len(d) THEN <<>>
    ELSE IterEntry(d[i].key, d[i].val, 1) \o IterCatalog(d, i + 1)

(***************************************************************************)
(* More of Python's str, list and re.                                      *)
(***************************************************************************)
\* the characters str.strip() removes (those a TLA+ string can hold)
Whitespace == {" ", "\t", "\n", "\r", "\f"}

RECURSIVE LStrip(_)
LStrip(s) ==
    IF Len(s) > 0 /\ CharAt(s, 1) \in Whitespace
    THEN LStrip(SubSeq(s, 2, Len(s)))
    ELSE s

RECURSIVE RStrip(_)
RStrip(s) ==
    IF Len(s) > 0 /\ CharAt(s, Len(s)) \in Whitespace
    THEN RStrip(SubSeq(s, 1, Len(s) - 1))
    ELSE s

\* s.strip()
Strip(s) == LStrip(RStrip(s))

\* c in s, for a character c
HasChar(s, c) == FindChar(s, c, 1) > 0

\* s.replace(old, new): the occurrences of old, leftmost first, not overlapping
RECURSIVE StrReplace(_, _, _)
StrReplace(s, old, new) ==
    IF Len(s) < Len(old) \/ Len(old) = 0 THEN s
    ELSE IF SubSeq(s, 1, Len(old)) = old
    THEN new \o StrReplace(SubSeq(s, Len(old) + 1, Len(s)), old, new)
    ELSE CharAt(s, 1) \o StrReplace(SubSeq(s, 2, Len(s)), old, new)

\* the characters re.escape puts a backslash before
ReSpecialChars ==
    {"(", ")", "[", "]", "{", "}", "?", "*", "+", "-", "|", "^", "$", "\\",
     ".", "&", "~", "#", " ", "\t", "\n", "\r", "\f"}

\* re.escape(s)
RECURSIVE ReEscape(_)
ReEscape(s) ==
    IF Len(s) = 0 THEN ""
    ELSE (IF CharAt(s, 1) \in ReSpecialChars THEN "\\" ELSE "")
         \o CharAt(s, 1) \o ReEscape(SubSeq(s, 2, Len(s)))

\* Whether regex re from position i on matches s from position j on, the
\* match ending anywhere.  The regexes are those built from an escaped
\* pattern: literals, escaped literals, ".*", "^" and "$".
RECURSIVE ReMatchHere(_, _, _, _)
ReMatchHere(re, i, s, j) ==
    IF i > Len(re) THEN TRUE
    ELSE LET c == CharAt(re, i) IN
         IF c = "^" THEN j = 1 /\ ReMatchHere(re, i + 1, s, j)
         ELSE IF c = "$"
         THEN /\ \/ j = Len(s) + 1
                 \/ j = Len(s) /\ CharAt(s, j) = "\n"
              /\ ReMatchHere(re, i + 1, s, j)
         ELSE IF c = "." /\ i < Len(re) /\ CharAt(re, i + 1) = "*"
         THEN \E k \in j..(Len(s) + 1) :
                 /\ \A m \in j..(k - 1) : CharAt(s, m) # "\n"
                 /\ ReMatchHere(re, i + 2, s, k)
         ELSE IF c = "\\"
         THEN /\ i < Len(re) /\ j <= Len(s)
              /\ CharAt(s, j) = CharAt(re, i + 1)
              /\ ReMatchHere(re, i + 2, s, j + 1)
         ELSE IF c = "."
         THEN j <= Len(s) /\ CharAt(s, j) # "\n" /\ ReMatchHere(re, i + 1, s, j + 1)
         ELSE j <= Len(s) /\ CharAt(s, j) = c /\ ReMatchHere(re, i + 1, s, j + 1)

\* re.match(re, s) is not None: a match at the start of s
ReMatch(re, s) == ReMatchHere(re, 1, s, 1)

\* list(dict.fromkeys(l)): l without its repeated elements, first kept
RECURSIVE Dedupe(_)
Dedupe(l) ==
    IF Len(l) <= 1 THEN l
    ELSE LET h == Len(l) \div 2
             front == Dedupe(SubSeq(l, 1, h))
             back == Dedupe(SubSeq(l, h + 1, Len(l)))
         IN  front \o SelectSeq(back,
                          LAMBDA x : \A i \in 1..Len(front) : front[i] # x)

\* d.update(e), e a dict: the keys of d keep their places and take e's
\* values, the new keys of e follow in e's order
DictUpdate(d, e) ==
    [i \in 1..Len(d) |->
        IF HasKey(e, d[i].key)
        THEN [key |-> d[i].key, val |-> DictGet(e, d[i].key, d[i].val)]
        ELSE d[i]]
    \o SelectSeq(e, LAMBDA item : ~HasKey(d, item.key))

KV(k, v) == [key |-> k, val |-> v]

UpperCase == "ABCDEFGHIJKLMNOPQRSTUVWXYZ"
LowerCase == "abcdefghijklmnopqrstuvwxyz"

\* s.lower()
RECURSIVE Lower(_)
Lower(s) ==
    IF Len(s) = 0 THEN ""
    ELSE LET k == FindChar(UpperCase, CharAt(s, 1), 1) IN
         (IF k = 0 THEN CharAt(s, 1) ELSE CharAt(LowerCase, k))
         \o Lower(SubSeq(s, 2, Len(s)))

(***************************************************************************)
(* domain/gcore_domain.py and the tables of config/                        *)
(***************************************************************************)
\* GcoreDomainHandler.get_resource_shortening_rules()
get_resource_shortening_rules ==
    <<
      KV("instances", "insts"), KV("flavors", "flavs"), KV("images", "imgs"),
      KV("snapshots", "snaps"), KV("volumes", "vols"),
      KV("networks", "nets"), KV("subnets", "subs"), KV("routers", "rtrs"),
      KV("ports", "ports"), KV("floating_ips", "fips"),
      KV("reserved_fixed_ips", "rfips"), KV("load_balancers", "lb"),
      KV("listeners", "lnrs"), KV("pools", "pools"), KV("members", "mbrs"),
      KV("health_monitors", "hms"), KV("l7policies", "l7pols"),
      KV("l7rules", "l7rules"), KV("security_groups", "secgrps"),
      KV("security_group_rules", "secgrp_rules"),
      KV("placement_groups", "placegrps"), KV("ssh_keys", "sshkeys"),
      KV("keypairs", "keypairs"), KV("quotas", "quotas"),
      KV("projects", "projs"), KV("regions", "rgns"), KV("secrets", "secr"),
      KV("clusters", "clstrs"), KV("nodes", "nodes"),
      KV("registries", "regs"), KV("file_shares", "fshares"),
      KV("ai_clusters", "ai_clstrs"), KV("inference", "infer"),
      KV("deployments", "deploys")
    >>

\* GcoreDomainHandler.get_method_shortening_rules()
get_method_shortening_rules ==
    <<
      KV("create", "new"), KV("delete", "del"), KV("list", "ls"),
      KV("update", "upd"), KV("replace", "repl"),
      KV("assign_security_group", "assign_secgrp"),
      KV("unassign_security_group", "unassign_secgrp"),
      KV("add_to_placement_group", "add_placegrp"),
      KV("remove_from_placement_group", "rm_placegrp"),
      KV("disable_port_security", "dis_portsec"),
      KV("enable_port_security", "en_portsec"), KV("get_console", "console"),
      KV("resize", "resize"), KV("action", "action"),
      KV("create_from_volume", "new_vol"), KV("upload", "upload"),
      KV("download", "download"), KV("change_type", "chg_type"),
      KV("revert_to_last_snapshot", "revert_snap"),
      KV("attach_to_instance", "att_inst"),
      KV("detach_from_instance", "det_inst"), KV("extend", "extend"),
      KV("create_snapshot", "snap"), KV("revert", "revert"),
      KV("get_capacity_by_region", "get_cap_region"),
      KV("attach_subnet", "att_sub"), KV("detach_subnet", "det_sub"),
      KV("attach_router", "att_rtr"), KV("detach_router", "det_rtr"),
      KV("add_member", "add_mbr"), KV("remove_member", "rm_mbr"),
      KV("failover", "failover"), KV("copy", "copy"),
      KV("revert_to_default", "revert_def"),
      KV("hard_reboot", "hard_reboot"), KV("soft_reboot", "soft_reboot"),
      KV("start", "start"), KV("stop", "stop"), KV("suspend", "suspend"),
      KV("resume", "resume"), KV("rebuild", "rebuild")
    >>

\* additional_rules of get_shortening_rules
additional_rules ==
    <<
      KV("interfaces", "ifaces"), KV("metrics", "metr"),
      KV("baremetal", "bm"), KV("gpu_baremetal_clusters", "gpu_bm_clusters"),
      KV("l7_policies", "l7pols"), KV("health_monitors", "health_mon"),
      KV("members", "membs"), KV("statuses", "stats"),
      KV("ip_ranges", "iprngs"), KV("rules", "rls"),
      KV("access_rules", "accessrls"), KV("repositories", "repos"),
      KV("artifacts", "arts"), KV("users", "usrs"), KV("tasks", "tsks"),
      KV("quotas", "qotas"), KV("requests", "reqs"),
      KV("role_assignments", "roleasgns"),
      KV("billing_reservations", "billresrvs"), KV("models", "mdls"),
      KV("logs", "logs"), KV("registry_credentials", "regcreds"),
      KV("resize", "resz"), KV("get_console", "get_con"),
      KV("action", "act"), KV("list_suitable", "ls_suit"),
      KV("list_for_resize", "ls_resz"), KV("attach", "att"),
      KV("detach", "det"), KV("upload", "upl"), KV("list", "ls"),
      KV("get", "get"), KV("powercycle_all_servers", "pwrall_srvs"),
      KV("reboot_all_servers", "rebootall_srvs"), KV("servers", "srvs"),
      KV("powercycle", "pwrcycle"), KV("failover", "failovr"),
      KV("remove", "rm"), KV("list_candidate_ports", "ls_cand_ports"),
      KV("list_connected_ports", "ls_conn_ports"),
      KV("replace_connected_ports", "repl_conn_ports"),
      KV("update_connected_ports", "upd_conn_ports"), KV("copy", "cp"),
      KV("change_type", "chng_type"), KV("create_multiple", "new_multi"),
      KV("refresh_secret", "refresh_secr"), KV("acknowledge_all", "ack_all"),
      KV("acknowledge_one", "ack_one"),
      KV("upload_tls_certificate", "upl_tls_cert"),
      KV("get_api_key", "get_apikey")
    >>

\* GcoreDomainHandler.get_toolset_definitions()
get_toolset_definitions ==
    <<
      KV("instances",
         <<
            "cloud.instances.create", "cloud.instances.list",
            "cloud.instances.get", "cloud.instances.update",
            "cloud.instances.delete",
            "cloud.instances.assign_security_group",
            "cloud.instances.unassign_security_group",
            "cloud.instances.resize", "cloud.instances.get_console",
            "cloud.instances.add_to_placement_group",
            "cloud.instances.remove_from_placement_group",
            "cloud.instances.disable_port_security",
            "cloud.instances.enable_port_security", "cloud.instances.action",
            "cloud.instances.flavors.list",
            "cloud.instances.flavors.list_suitable",
            "cloud.instances.flavors.list_for_resize",
            "cloud.instances.interfaces.list",
            "cloud.instances.interfaces.attach",
            "cloud.instances.interfaces.detach",
            "cloud.instances.images.create_from_volume",
            "cloud.instances.images.list", "cloud.instances.images.get",
            "cloud.instances.images.update", "cloud.instances.images.delete",
            "cloud.instances.images.upload", "cloud.instances.metrics.list"
         >>),
      KV("baremetal",
         <<
            "cloud.baremetal.create", "cloud.baremetal.list",
            "cloud.baremetal.get", "cloud.baremetal.update",
            "cloud.baremetal.delete", "cloud.baremetal.action",
            "cloud.baremetal.resize", "cloud.baremetal.get_console",
            "cloud.baremetal.assign_security_group",
            "cloud.baremetal.unassign_security_group",
            "cloud.baremetal.add_to_placement_group",
            "cloud.baremetal.remove_from_placement_group",
            "cloud.baremetal.disable_port_security",
            "cloud.baremetal.enable_port_security",
            "cloud.baremetal.flavors.list",
            "cloud.baremetal.flavors.list_suitable",
            "cloud.baremetal.interfaces.list",
            "cloud.baremetal.interfaces.attach",
            "cloud.baremetal.interfaces.detach",
            "cloud.baremetal.metrics.list"
         >>),
      KV("gpu",
         <<
            "cloud.gpu_baremetal_clusters.create",
            "cloud.gpu_baremetal_clusters.list",
            "cloud.gpu_baremetal_clusters.get",
            "cloud.gpu_baremetal_clusters.update",
            "cloud.gpu_baremetal_clusters.delete",
            "cloud.gpu_baremetal_clusters.flavors.list",
            "cloud.gpu_baremetal_clusters.servers.create",
            "cloud.gpu_baremetal_clusters.servers.list",
            "cloud.gpu_baremetal_clusters.servers.get",
            "cloud.gpu_baremetal_clusters.servers.delete",
            "cloud.gpu_baremetal_clusters.images.list",
            "cloud.gpu_baremetal_clusters.images.get",
            "cloud.gpu_baremetal_clusters.images.update",
            "cloud.gpu_baremetal_clusters.images.delete"
         >>),
      KV("networking",
         <<
            "cloud.networks.create", "cloud.networks.list",
            "cloud.networks.get", "cloud.networks.update",
            "cloud.networks.delete", "cloud.networks.subnets.create",
            "cloud.networks.subnets.list", "cloud.networks.subnets.get",
            "cloud.networks.subnets.update", "cloud.networks.subnets.delete",
            "cloud.networks.routers.create", "cloud.networks.routers.list",
            "cloud.networks.routers.get", "cloud.networks.routers.update",
            "cloud.networks.routers.delete",
            "cloud.networks.routers.attach_subnet",
            "cloud.networks.routers.detach_subnet",
            "cloud.floating_ips.create", "cloud.floating_ips.list",
            "cloud.floating_ips.get", "cloud.floating_ips.update",
            "cloud.floating_ips.delete", "cloud.reserved_fixed_ips.create",
            "cloud.reserved_fixed_ips.list", "cloud.reserved_fixed_ips.get",
            "cloud.reserved_fixed_ips.update",
            "cloud.reserved_fixed_ips.delete", "cloud.load_balancers.create",
            "cloud.load_balancers.list", "cloud.load_balancers.get",
            "cloud.load_balancers.update", "cloud.load_balancers.delete",
            "cloud.load_balancers.flavors.list",
            "cloud.load_balancers.listeners.create",
            "cloud.load_balancers.listeners.list",
            "cloud.load_balancers.listeners.get",
            "cloud.load_balancers.listeners.update",
            "cloud.load_balancers.listeners.delete",
            "cloud.load_balancers.pools.create",
            "cloud.load_balancers.pools.list",
            "cloud.load_balancers.pools.get",
            "cloud.load_balancers.pools.update",
            "cloud.load_balancers.pools.delete",
            "cloud.load_balancers.l7policies.create",
            "cloud.load_balancers.l7policies.list",
            "cloud.load_balancers.l7policies.get",
            "cloud.load_balancers.l7policies.update",
            "cloud.load_balancers.l7policies.delete"
         >>),
      KV("security",
         <<
            "cloud.security_groups.create", "cloud.security_groups.list",
            "cloud.security_groups.get", "cloud.security_groups.update",
            "cloud.security_groups.delete", "cloud.security_groups.copy",
            "cloud.security_groups.revert_to_default",
            "cloud.security_groups.rules.create",
            "cloud.security_groups.rules.replace",
            "cloud.security_groups.rules.delete", "cloud.ssh_keys.create",
            "cloud.ssh_keys.list", "cloud.ssh_keys.get",
            "cloud.ssh_keys.update", "cloud.ssh_keys.delete",
            "cloud.secrets.create", "cloud.secrets.list",
            "cloud.secrets.get", "cloud.secrets.update",
            "cloud.secrets.delete"
         >>),
      KV("storage",
         <<
            "cloud.volumes.create", "cloud.volumes.list",
            "cloud.volumes.get", "cloud.volumes.update",
            "cloud.volumes.delete", "cloud.volumes.resize",
            "cloud.volumes.change_type",
            "cloud.volumes.revert_to_last_snapshot",
            "cloud.volumes.attach_to_instance",
            "cloud.volumes.detach_from_instance",
            "cloud.volumes.snapshots.create", "cloud.volumes.snapshots.list",
            "cloud.volumes.snapshots.get", "cloud.volumes.snapshots.update",
            "cloud.volumes.snapshots.delete", "cloud.file_shares.create",
            "cloud.file_shares.list", "cloud.file_shares.get",
            "cloud.file_shares.update", "cloud.file_shares.delete",
            "cloud.file_shares.extend",
            "cloud.file_shares.get_capacity_by_region"
         >>),
      KV("management",
         <<
            "cloud.projects.create", "cloud.projects.list",
            "cloud.projects.get", "cloud.projects.update",
            "cloud.projects.delete", "cloud.regions.list",
            "cloud.regions.get", "cloud.placement_groups.create",
            "cloud.placement_groups.list", "cloud.placement_groups.get",
            "cloud.placement_groups.update", "cloud.placement_groups.delete",
            "cloud.tasks.list", "cloud.tasks.get",
            "cloud.tasks.acknowledge_all", "cloud.tasks.acknowledge_one",
            "cloud.quotas.list", "cloud.quotas.get"
         >>),
      KV("ai",
         <<
            "cloud.ai_clusters.create", "cloud.ai_clusters.list",
            "cloud.ai_clusters.get", "cloud.ai_clusters.update",
            "cloud.ai_clusters.delete", "cloud.inference.deployments.create",
            "cloud.inference.deployments.list",
            "cloud.inference.deployments.get",
            "cloud.inference.deployments.update",
            "cloud.inference.deployments.delete"
         >>),
      KV("containers",
         <<
            "cloud.registries.create", "cloud.registries.list",
            "cloud.registries.get", "cloud.registries.update",
            "cloud.registries.delete"
         >>)
    >>

\* additional_toolsets of get_raw_toolsets
additional_toolsets ==
    <<
      KV("baremetal",
         <<
            "cloud.baremetal.images.list", "cloud.baremetal.flavors.list",
            "cloud.baremetal.flavors.list_suitable",
            "cloud.baremetal.servers.create", "cloud.baremetal.servers.list",
            "cloud.baremetal.servers.rebuild"
         >>),
      KV("gpu_baremetal",
         <<
            "cloud.gpu_baremetal_clusters.create",
            "cloud.gpu_baremetal_clusters.get",
            "cloud.gpu_baremetal_clusters.delete",
            "cloud.gpu_baremetal_clusters.list",
            "cloud.gpu_baremetal_clusters.rebuild",
            "cloud.gpu_baremetal_clusters.resize",
            "cloud.gpu_baremetal_clusters.powercycle_all_servers",
            "cloud.gpu_baremetal_clusters.reboot_all_servers",
            "cloud.gpu_baremetal_clusters.interfaces.list",
            "cloud.gpu_baremetal_clusters.servers.delete",
            "cloud.gpu_baremetal_clusters.servers.attach_interface",
            "cloud.gpu_baremetal_clusters.servers.detach_interface",
            "cloud.gpu_baremetal_clusters.servers.get_console",
            "cloud.gpu_baremetal_clusters.servers.powercycle",
            "cloud.gpu_baremetal_clusters.servers.reboot",
            "cloud.gpu_baremetal_clusters.flavors.list",
            "cloud.gpu_baremetal_clusters.images.upload",
            "cloud.gpu_baremetal_clusters.images.list",
            "cloud.gpu_baremetal_clusters.images.get",
            "cloud.gpu_baremetal_clusters.images.delete"
         >>),
      KV("ai_ml",
         <<
            "cloud.inference.get_capacity_by_region",
            "cloud.inference.flavors.list", "cloud.inference.flavors.get",
            "cloud.inference.models.list", "cloud.inference.models.get",
            "cloud.inference.deployments.create",
            "cloud.inference.deployments.list",
            "cloud.inference.deployments.get",
            "cloud.inference.deployments.update",
            "cloud.inference.deployments.delete",
            "cloud.inference.deployments.get_api_key",
            "cloud.inference.deployments.start",
            "cloud.inference.deployments.stop",
            "cloud.inference.deployments.logs.list",
            "cloud.inference.registry_credentials.create",
            "cloud.inference.registry_credentials.list",
            "cloud.inference.registry_credentials.get",
            "cloud.inference.registry_credentials.replace",
            "cloud.inference.registry_credentials.delete",
            "cloud.inference.secrets.create", "cloud.inference.secrets.list",
            "cloud.inference.secrets.get", "cloud.inference.secrets.replace",
            "cloud.inference.secrets.delete"
         >>),
      KV("cleanup",
         <<
            "cloud.secrets.delete", "cloud.ssh_keys.delete",
            "cloud.load_balancers.delete",
            "cloud.load_balancers.l7policies.delete",
            "cloud.load_balancers.listeners.delete",
            "cloud.load_balancers.pools.delete",
            "cloud.reserved_fixed_ips.delete", "cloud.networks.delete",
            "cloud.networks.subnets.delete", "cloud.networks.routers.delete",
            "cloud.volumes.delete", "cloud.floating_ips.delete",
            "cloud.security_groups.delete",
            "cloud.inference.deployments.delete",
            "cloud.placement_groups.delete", "cloud.registries.delete",
            "cloud.file_shares.delete",
            "cloud.gpu_baremetal_clusters.delete",
            "cloud.gpu_baremetal_clusters.servers.delete",
            "cloud.gpu_baremetal_clusters.images.delete",
            "cloud.instances.delete", "cloud.instances.images.delete"
         >>),
      KV("list",
         <<
            "cloud.instances.list", "cloud.instances.flavors.list",
            "cloud.instances.images.list", "cloud.baremetal.images.list",
            "cloud.baremetal.flavors.list", "cloud.baremetal.servers.list",
            "cloud.gpu_baremetal_clusters.list",
            "cloud.gpu_baremetal_clusters.flavors.list",
            "cloud.gpu_baremetal_clusters.images.list",
            "cloud.networks.list", "cloud.networks.subnets.list",
            "cloud.networks.routers.list"
         >>)
    >>


(***************************************************************************)
(* config/settings.py                                                      *)
(***************************************************************************)
MAX_TOOL_NAME_LEN == 60

\* get_shortening_rules()
get_shortening_rules ==
    DictUpdate(DictUpdate(DictUpdate(EmptyDict, get_resource_shortening_rules),
                          get_method_shortening_rules),
               additional_rules)

\* a shortening that never truncates
generate_short_tool_name_NoTruncation(original_dot_name, max_len) ==
    LET parts == Split(original_dot_name, ".")
    IN  Join([i \in 1..Len(parts) |->
                 DictGet(get_shortening_rules, parts[i], parts[i])], ".")

\* generate_short_tool_name(original_dot_name, max_len)
generate_short_tool_name(original_dot_name, max_len) ==
    LET parts == Split(original_dot_name, ".")
        shortened_parts ==
            [i \in 1..Len(parts) |->
                DictGet(get_shortening_rules, parts[i], parts[i])]
        short_name_untruncated == Join(shortened_parts, ".")
    IN  IF Len(short_name_untruncated) <= max_len
        THEN short_name_untruncated
        ELSE SubSeq(short_name_untruncated, 1, max_len)

\* the regex get_allowed_tools_list compiles for a pattern (toolsets.py:204)
PatternRegex(pattern) == StrReplace(ReEscape(pattern), "\\*", ".*")

\* convert_pattern_to_regex(pattern)
convert_pattern_to_regex(pattern) == "^" \o PatternRegex(pattern) \o "$"

(***************************************************************************)
(* config/toolsets.py                                                      *)
(***************************************************************************)
\* get_raw_toolsets()
get_raw_toolsets == DictUpdate(get_toolset_definitions, additional_toolsets)

\* _generate_toolsets()
TOOLSETS ==
    [k \in 1..Len(get_raw_toolsets) |->
        KV(get_raw_toolsets[k].key,
           [i \in 1..Len(get_raw_toolsets[k].val) |->
               generate_short_tool_name(get_raw_toolsets[k].val[i],
                                        MAX_TOOL_NAME_LEN)])]

DEFAULT_TOOLSETS == <<"management", "instances">>

\* a parse that does not trim its entries
parse_unified_tool_config_NoStrip(config_str) ==
    LET entries == SelectSeq(Split(config_str, ","), LAMBDA e : e # "")
    IN  [toolset_names |-> SelectSeq(entries, LAMBDA e : HasKey(TOOLSETS, e)),
         pattern_filters |-> SelectSeq(entries, LAMBDA e : ~HasKey(TOOLSETS, e))]

\* parse_unified_tool_config(config_str)
parse_unified_tool_config(config_str) ==
    LET pieces == Split(config_str, ",")
        stripped == [i \in 1..Len(pieces) |-> Strip(pieces[i])]
        entries == SelectSeq(stripped, LAMBDA e : e # "")
    IN  [toolset_names |-> SelectSeq(entries, LAMBDA e : HasKey(TOOLSETS, e)),
         pattern_filters |-> SelectSeq(entries, LAMBDA e : ~HasKey(TOOLSETS, e))]

\* os.getenv(UNIFIED_TOOLS_ENV_VAR) is None
EnvIsNone(e) == ~e.set

\* get_unified_tool_config() under environment e
get_unified_tool_config(e) ==
    IF e.set /\ e.val # ""
    THEN parse_unified_tool_config(e.val)
    ELSE [toolset_names |-> <<>>, pattern_filters |-> <<>>]

\* get_active_toolset_names() under environment e
get_active_toolset_names(e) ==
    LET toolset_names == get_unified_tool_config(e).toolset_names IN
    IF Len(toolset_names) > 0 \/ ~EnvIsNone(e) THEN toolset_names
    ELSE DEFAULT_TOOLSETS

\* the condition under which a pattern selects a tool name (toolsets.py:201-207)
PatternSelects(pattern, tool_name) ==
    \/ pattern = tool_name
    \/ /\ HasChar(pattern, "*")
       /\ ReMatch(PatternRegex(pattern), tool_name)

\* the members of the known toolsets among toolset_names, in order
RECURSIVE ToolsetTools(_)
ToolsetTools(toolset_names) ==
    IF Len(toolset_names) = 0 THEN <<>>
    ELSE (IF HasKey(TOOLSETS, toolset_names[1])
          THEN DictGet(TOOLSETS, toolset_names[1], <<>>)
          ELSE <<>>)
         \o ToolsetTools(Tail(toolset_names))

\* a combination that puts the pattern matches first
Combine_PatternsFirst(toolset_tools, pattern_matched_tools) ==
    Dedupe(pattern_matched_tools \o toolset_tools)

\* toolset_tools + pattern_matched_tools, de-duplicated (toolsets.py:217-220)
Combine(toolset_tools, pattern_matched_tools) ==
    Dedupe(toolset_tools \o pattern_matched_tools)

\* a selection without the fallback to the defaults
EffectiveToolsetNames_NoDefault(cfg, e) == cfg.toolset_names

\* the toolset names get_allowed_tools_list works with (toolsets.py:180-182)
EffectiveToolsetNames(cfg, e) ==
    IF Len(cfg.toolset_names) = 0 /\ Len(cfg.pattern_filters) = 0 /\ EnvIsNone(e)
    THEN DEFAULT_TOOLSETS
    ELSE cfg.toolset_names

\* get_allowed_tools_list(all_available_tools) under environment e; avail is
\* [given, names], given = FALSE for None.  The locals and the list returned.
get_allowed_tools_list(avail, e) ==
    LET cfg == get_unified_tool_config(e)
        toolset_names == EffectiveToolsetNames(cfg, e)
        pattern_filters == cfg.pattern_filters
        toolset_tools == Dedupe(ToolsetTools(toolset_names))
        matched ==
            IF Len(pattern_filters) > 0 /\ avail.given /\ Len(avail.names) > 0
            THEN SelectSeq(avail.names,
                     LAMBDA t : \E k \in 1..Len(pattern_filters) :
                                    PatternSelects(pattern_filters[k], t))
            ELSE <<>>
        pattern_matched_tools ==
            [i \in 1..Len(matched) |->
                generate_short_tool_name(matched[i], MAX_TOOL_NAME_LEN)]
    IN  [toolset_names |-> toolset_names,
         pattern_filters |-> pattern_filters,
         toolset_tools |-> toolset_tools,
         pattern_matched_tools |-> pattern_matched_tools,
         result |-> Combine(toolset_tools, pattern_matched_tools)]


(***************************************************************************)
(* More of Python's str and list operations.                               *)
(***************************************************************************)
\* index of the first occurrence of the string sub in s at or after i, or 0
Find(s, sub, i) ==
    LET found == { k \in i..(Len(s) - Len(sub) + 1) :
                     SubSeq(s, k, k + Len(sub) - 1) = sub }
    IN  IF found = {} THEN 0
        ELSE CHOOSE k \in found : \A j \in found : k <= j

\* a < b for two strings of the characters of identifiers, as Python
\* compares them: character by character, by code point
RECURSIVE StrLess(_, _)
StrLess(a, b) ==
    LET CodePoints == "0123456789" \o UpperCase \o "_" \o LowerCase IN
    IF Len(b) = 0 THEN FALSE
    ELSE IF Len(a) = 0 THEN TRUE
    ELSE IF CharAt(a, 1) = CharAt(b, 1)
    THEN StrLess(SubSeq(a, 2, Len(a)), SubSeq(b, 2, Len(b)))
    ELSE FindChar(CodePoints, CharAt(a, 1), 1) < FindChar(CodePoints, CharAt(b, 1), 1)

\* sorted(list(S)) for a set of strings
RECURSIVE Sorted(_)
Sorted(S) ==
    IF S = {} THEN <<>>
    ELSE LET least == CHOOSE x \in S : \A y \in S : x = y \/ StrLess(x, y)
         IN  <<least>> \o Sorted(S \ {least})

(***************************************************************************)
(* Type annotations, as the typing module presents them:                   *)
(*   kind  - the built-in or special form the annotation is, or what it is *)
(*           an instance of;                                               *)
(*   args  - typing.get_args: Union members come flattened, without        *)
(*           repetition and at least two; Required[T] and NotRequired[T]   *)
(*           have exactly one;                                             *)
(*   doc   - inspect.getdoc, "" for None: a class without a docstring of   *)
(*           its own inherits its base's, a TypedDict the one of dict.     *)
(***************************************************************************)
Prim(kind) == [kind |-> kind]

\* Literal[v1, ...]: each value by the type it is an instance of and its repr
Lit(kind, repr) == [kind |-> kind, repr |-> repr]
LiteralType(values) == [kind |-> "Literal", values |-> values]

UnionType(args) == [kind |-> "Union", args |-> args]
\* Required[t] and NotRequired[t]
Marked(kind, t) == [kind |-> kind, args |-> <<t>>]

\* a field or an annotated attribute
F(name, hint) == [name |-> name, hint |-> hint]

\* class name(TypedDict, total=...): the fields with their hints as
\* get_type_hints(include_extras=True) gives them
TypedDictType(name, doc, total, fields) ==
    [kind |-> "TypedDict", name |-> name, doc |-> doc, total |-> total,
     fields |-> fields, has_required_keys |-> TRUE]

\* alias[args] with get_origin(...) = origin; alias is its __name__
Generic(alias, origin, args) ==
    [kind |-> "generic", alias |-> alias, origin |-> origin, args |-> args]

\* a subclass of pydantic.BaseModel; how model_json_schema() ends
PydanticModel(name, doc, raises, json_schema) ==
    [kind |-> "BaseModel", name |-> name, doc |-> doc, raises |-> raises,
     json_schema |-> json_schema]

\* any other class with its __annotations__
Class(name, doc, annotations) ==
    [kind |-> "class", name |-> name, doc |-> doc, annotations |-> annotations]

\* anything else: its str(), and its __name__ if it has one
Other(str, has_name, name) ==
    [kind |-> "other", str |-> str, has_name |-> has_name, name |-> name]

\* gcore.NotGiven
NotGiven ==
    Class("NotGiven",
          "A sentinel singleton class used to distinguish omitted keyword arguments\nfrom those passed in with the value None (which may have different behavior).",
          <<>>)

NoneType == Prim("NoneType")

\* t.__name__
NameOf(t) ==
    IF t.kind \in {"TypedDict", "BaseModel", "class", "other"} THEN t.name
    ELSE IF t.kind = "generic" THEN t.alias
    ELSE IF t.kind = "empty" THEN "_empty"
    ELSE IF t.kind = "Union"
    THEN (IF Len(t.args) = 2 /\ (\E i \in 1..2 : t.args[i] = NoneType)
          THEN "Optional" ELSE "Union")
    ELSE t.kind

\* getattr(t, "__name__", default)
GetAttrName(t, default) ==
    LET has_name == IF t.kind = "None" THEN FALSE
                    ELSE IF t.kind = "other" THEN t.has_name
                    ELSE TRUE
    IN  IF has_name THEN NameOf(t) ELSE default

\* str(t), for the annotations that have no __name__
Str(t) == IF t.kind = "None" THEN "None" ELSE t.str

\* param_type.__required_keys__, as the TypedDict class statement computes
\* it: with total=True every field not marked NotRequired, with total=False
\* the fields marked Required
RequiredKeys(t) ==
    { t.fields[i].name : i \in { j \in 1..Len(t.fields) :
          IF t.total THEN t.fields[j].hint.kind # "NotRequired"
          ELSE t.fields[j].hint.kind = "Required" } }

(***************************************************************************)
(* domain/gcore_domain.py: the handler's tables.                           *)
(***************************************************************************)
GCORE_SPECIAL_PARAMETERS ==
    {"volumes", "interfaces", "security_groups", "flavors", "networks",
     "instances", "projects", "regions"}

\* get_parameter_description(param_name, base_description)
get_parameter_description(param_name, base_description) ==
    LET descriptions ==
          <<KV("volumes",
               "List of volume configurations. Each item can define a volume from an image, snapshot, or refer to an existing volume. Example for a boot volume from image: " \o Backtick \o "[{\"source\": \"image\", \"image_id\": \"...\", \"boot_index\": 0, \"size\": 50}]" \o Backtick \o ". Example for an existing volume: " \o Backtick \o "[{\"id\": \"...\"}]" \o Backtick \o "."),
            KV("interfaces",
               "List of network interface configurations. Example: " \o Backtick \o "[{\"type\": \"external\", \"network_id\": \"...\"}]" \o Backtick),
            KV("security_groups",
               "List of security group UUIDs. Example: " \o Backtick \o "[\"<sg_uuid1>\", \"<sg_uuid2>\"]" \o Backtick)>>
    IN  IF HasKey(descriptions, param_name)
        THEN DictGet(descriptions, param_name, base_description)
        ELSE base_description

\* a handler without example payloads
get_parameter_examples_None(param_name) == <<>>

\* get_parameter_examples(param_name): each example as its JSON text
get_parameter_examples(param_name) ==
    LET examples ==
          <<KV("volumes",
               <<"[{\"source\": \"image\", \"image_id\": \"<image_uuid>\", \"boot_index\": 0, \"size\": 50}]",
                 "[{\"id\": \"<existing_volume_uuid>\"}]">>),
            KV("interfaces",
               <<"[{\"type\": \"external\", \"network_id\": \"<network_uuid>\"}]",
                 "[{\"type\": \"internal\", \"subnet_id\": \"<subnet_uuid>\", \"security_groups\": [\"<sg_uuid>\"]}]">>),
            KV("security_groups",
               <<"[\"<sg_uuid1>\", \"<sg_uuid2>\"]">>)>>
    IN  DictGet(examples, param_name, <<>>)

\* get_union_type_description_enhancement(param_name, base_description)
get_union_type_description_enhancement(param_name, base_description) ==
    IF param_name = "volumes"
    THEN base_description
         \o ". Example for a boot volume: " \o Backtick \o "{\"source\": \"image\", \"image_id\": \"...\", \"boot_index\": 0, \"size\": 50}" \o Backtick
    ELSE base_description

get_json_conversion_parameters == {"volumes", "interfaces", "security_groups"}

is_special_parameter(param_name) == param_name \in GCORE_SPECIAL_PARAMETERS

(***************************************************************************)
(* core/schema.py: the translation of a type annotation into a JSON Schema *)
(* fragment, a dict.                                                       *)
(***************************************************************************)
\* the loop over the lines of the docstring, from line i; st is the loop's
\* variables field_docs, current_field ("" for None) and current_doc_lines
RECURSIVE ParseDocLines(_, _, _, _)
ParseDocLines(lines, i, field_names, st) ==
    LET Saved(s) ==
            IF s.current_field # "" /\ s.current_doc_lines # <<>>
            THEN DictPut(s.field_docs, s.current_field,
                         Strip(Join(s.current_doc_lines, " ")))
            ELSE s.field_docs
    IN
    IF i > Len(lines) THEN Saved(st)
    ELSE Only({
        IF stripped_line = ""
        THEN ParseDocLines(lines, i + 1, field_names,
                 [field_docs |-> Saved(st), current_field |-> "",
                  current_doc_lines |-> <<>>])
        ELSE LET found == { k \in 1..Len(field_names) :
                              \/ StartsWith(stripped_line, field_names[k] \o ":")
                              \/ StartsWith(stripped_line, field_names[k] \o " (") }
                 colon == FindChar(stripped_line, ":", 1)
                 desc_part == IF colon > 0
                              THEN Strip(SubSeq(stripped_line, colon + 1, Len(stripped_line)))
                              ELSE ""
             IN  IF found # {}
                 THEN ParseDocLines(lines, i + 1, field_names,
                          [field_docs |-> Saved(st),
                           current_field |->
                               field_names[CHOOSE k \in found : \A j \in found : k <= j],
                           current_doc_lines |->
                               IF desc_part # "" THEN <<desc_part>> ELSE <<>>])
                 ELSE IF st.current_field # ""
                 THEN ParseDocLines(lines, i + 1, field_names,
                          [st EXCEPT !.current_doc_lines = Append(@, stripped_line)])
                 ELSE ParseDocLines(lines, i + 1, field_names, st)
        : stripped_line \in {Strip(lines[i])} })

\* _parse_typeddict_field_docstrings(class_docstring, field_names)
_parse_typeddict_field_docstrings(class_docstring, field_names) ==
    IF class_docstring = "" THEN EmptyDict
    ELSE ParseDocLines(Split(class_docstring, "\n"), 1, field_names,
             [field_docs |-> EmptyDict, current_field |-> "",
              current_doc_lines |-> <<>>])

\* docstring.split("\n\n")[0].strip()
FirstParagraph(doc) ==
    LET k == Find(doc, "\n\n", 1)
    IN  Strip(IF k = 0 THEN doc ELSE SubSeq(doc, 1, k - 1))

\* the description of a class: the first paragraph of its docstring unless
\* it has none or inherits the one of dict
ClassDescription(raw_doc, fallback) ==
    IF raw_doc # "" /\ ~StartsWith(raw_doc, "dict() ->")
    THEN FirstParagraph(raw_doc)
    ELSE fallback

\* origin in (list, set, tuple, Iterable, abcIterable, Sequence, abcSet,
\* Collection)
IsListLike(t) ==
    /\ t.kind = "generic"
    /\ t.origin \in {"list", "set", "tuple", "Iterable", "Sequence", "Set", "Collection"}

\* a union's only remaining member that takes no note
OptionalNote_Dropped(schema, is_optional) == schema

\* the note an optional union's only remaining member takes
OptionalNote(schema, is_optional) ==
    IF is_optional
    THEN (IF HasKey(schema, "description")
          THEN DictPut(schema, "description",
                       DictGet(schema, "description", "") \o " (optional)")
          ELSE DictPut(schema, "description", "Optional"))
    ELSE schema

\* a literal's type with int looked for before bool, which every bool is
LiteralSchemaType_IntFirst(enum_values) ==
    IF enum_values = <<>> THEN "string"
    ELSE IF enum_values[1].kind \in {"int", "bool"} THEN "integer"
    ELSE IF enum_values[1].kind = "float" THEN "number"
    ELSE "string"

\* the type of a literal's fragment: the one of its first value
LiteralSchemaType(enum_values) ==
    IF enum_values = <<>> THEN "string"
    ELSE IF enum_values[1].kind = "bool" THEN "boolean"
    ELSE IF enum_values[1].kind = "int" THEN "integer"
    ELSE IF enum_values[1].kind = "float" THEN "number"
    ELSE "string"

RECURSIVE convert_param_type_to_schema_type(_, _)
RECURSIVE ConvertTypedDict(_)
RECURSIVE ConvertUnion(_, _)

\* the union branch of convert_param_type_to_schema_type
ConvertUnion(param_type, param_name) ==
    LET args == param_type.args
        non_none_args == SelectSeq(args, LAMBDA arg : arg # NoneType /\ arg # NotGiven)
        is_optional == \E i \in 1..Len(args) : args[i] \in {NoneType, NotGiven}
    IN
    IF non_none_args = <<>> THEN <<KV("type", "null")>>
    ELSE IF Len(non_none_args) = 1
    THEN Only({ OptionalNote(schema, is_optional)
         : schema \in {convert_param_type_to_schema_type(non_none_args[1], param_name)} })
    ELSE LET one_of_schemas ==
                 [i \in 1..Len(non_none_args) |->
                     convert_param_type_to_schema_type(
                         non_none_args[i], GetAttrName(non_none_args[i], param_name))]
                 \o (IF is_optional THEN << <<KV("type", "null")>> >> ELSE <<>>)
             type_names_for_desc ==
                 [i \in 1..Len(non_none_args) |->
                     GetAttrName(non_none_args[i], Str(non_none_args[i]))]
             union_desc ==
                 "One of the following types: " \o Join(type_names_for_desc, ", ")
                 \o (IF is_optional THEN " or null" ELSE "")
         IN  <<KV("oneOf", one_of_schemas),
               KV("description",
                  IF is_special_parameter(param_name)
                  THEN get_union_type_description_enhancement(param_name, union_desc)
                  ELSE union_desc)>>

\* the TypedDict branch of convert_param_type_to_schema_type
ConvertTypedDict(param_type) ==
    LET type_name == param_type.name
        field_hints == param_type.fields
        field_names == [i \in 1..Len(field_hints) |-> field_hints[i].name]
        docstring == param_type.doc
        Wrapped(v_type) == v_type.kind \in {"Required", "NotRequired"}
        Nullable(v_type) ==
            /\ v_type.kind = "Union"
            /\ \E i \in 1..Len(v_type.args) : v_type.args[i] = NoneType
        by_default ==
            IF param_type.has_required_keys THEN RequiredKeys(param_type)
            ELSE IF param_type.total
            THEN { field_hints[i].name : i \in { j \in 1..Len(field_hints) :
                       ~(field_hints[j].hint.kind = "NotRequired"
                         \/ Nullable(field_hints[j].hint)) } }
            ELSE {}
        required_keys_set ==
            by_default
            \cup { field_hints[i].name : i \in { j \in 1..Len(field_hints) :
                       field_hints[j].hint.kind = "Required" } }
        main_doc == FirstParagraph(docstring)
    IN  Only({
          LET properties ==
                [i \in 1..Len(field_hints) |->
                    Only({ KV(field_hints[i].name,
                              IF HasKey(field_docstrings, field_hints[i].name)
                              THEN DictPut(field_schema, "description",
                                           DictGet(field_docstrings, field_hints[i].name, ""))
                              ELSE IF ~HasKey(field_schema, "description")
                              THEN DictPut(field_schema, "description",
                                           "Field: " \o field_hints[i].name)
                              ELSE field_schema)
                         : field_schema \in
                             {convert_param_type_to_schema_type(
                                  IF Wrapped(field_hints[i].hint)
                                  THEN field_hints[i].hint.args[1]
                                  ELSE field_hints[i].hint,
                                  field_hints[i].name)} })]
          IN  <<KV("type", "object"), KV("properties", properties)>>
              \o (IF required_keys_set # {}
                  THEN <<KV("required", Sorted(required_keys_set))>> ELSE <<>>)
              \o <<KV("description",
                      IF main_doc # ""
                         /\ ~\E i \in 1..Len(field_names) :
                                Find(main_doc, field_names[i] \o ":", 1) > 0
                      THEN "Object of type " \o type_name \o ": " \o main_doc
                      ELSE "Object of type " \o type_name)>>
        : field_docstrings \in
            {_parse_typeddict_field_docstrings(docstring, field_names)} })

\* convert_param_type_to_schema_type(param_type, param_name)
convert_param_type_to_schema_type(param_type, param_name) ==
    LET kind == param_type.kind IN
    IF kind \in {"Required", "NotRequired"}
    THEN Only({
            IF kind = "Required" /\ HasKey(inner_schema, "description")
            THEN DictPut(inner_schema, "description",
                         Strip(DictGet(inner_schema, "description", "")
                               \o " (explicitly required)"))
            ELSE IF kind = "Required"
            THEN DictPut(inner_schema, "description", "(explicitly required)")
            ELSE inner_schema
         : inner_schema \in
             {convert_param_type_to_schema_type(param_type.args[1], param_name)} })
    ELSE IF kind = "int" THEN <<KV("type", "integer")>>
    ELSE IF kind = "float" THEN <<KV("type", "number")>>
    ELSE IF kind = "bool" THEN <<KV("type", "boolean")>>
    ELSE IF kind = "str" THEN <<KV("type", "string")>>
    ELSE IF kind \in {"Any", "empty"}
    THEN <<KV("type", "object"),
           KV("description",
              "Any type, can be a flexible JSON object or an appropriate primitive.")>>
    ELSE IF kind \in {"None", "NoneType"} THEN <<KV("type", "null")>>
    ELSE IF kind = "Literal"
    THEN LET enum_values == param_type.values
         IN  <<KV("type", LiteralSchemaType(enum_values)), KV("enum", enum_values),
               KV("description",
                  "Must be one of: "
                  \o Join([i \in 1..Len(enum_values) |-> enum_values[i].repr], ", "))>>
    ELSE IF kind = "Union" THEN ConvertUnion(param_type, param_name)
    ELSE IF kind = "TypedDict" THEN ConvertTypedDict(param_type)
    ELSE IF IsListLike(param_type)
    THEN LET args == param_type.args
             item_type == IF args # <<>> THEN args[1] ELSE Prim("Any")
             item_param_name == IF param_name # "" THEN param_name \o "_item" ELSE "item"
             array_description == "Array of " \o GetAttrName(item_type, Str(item_type))
         IN  <<KV("type", "array"),
               KV("items", convert_param_type_to_schema_type(item_type, item_param_name)),
               KV("description",
                  IF is_special_parameter(param_name)
                  THEN get_parameter_description(param_name, array_description)
                  ELSE array_description)>>
             \o (IF is_special_parameter(param_name)
                    /\ get_parameter_examples(param_name) # <<>>
                 THEN <<KV("examples", get_parameter_examples(param_name))>>
                 ELSE <<>>)
    ELSE IF kind = "generic" /\ param_type.origin = "dict"
    THEN LET args == param_type.args
             value_type == IF Len(args) > 1 THEN args[2] ELSE Prim("Any")
         IN  <<KV("type", "object"),
               KV("additionalProperties",
                  convert_param_type_to_schema_type(
                      value_type,
                      IF param_name # "" THEN param_name \o "_value" ELSE "")),
               KV("description",
                  "Dictionary with string keys and values of type "
                  \o GetAttrName(value_type, Str(value_type)))>>
    ELSE IF kind = "BaseModel"
    THEN (IF param_type.raises
          THEN <<KV("type", "object"),
                 KV("description",
                    ClassDescription(param_type.doc,
                                     "Pydantic model: " \o param_type.name))>>
          ELSE LET typed == IF HasKey(param_type.json_schema, "type")
                            THEN param_type.json_schema
                            ELSE DictPut(param_type.json_schema, "type", "object")
               IN  IF HasKey(typed, "description") THEN typed
                   ELSE DictPut(typed, "description",
                            ClassDescription(param_type.doc,
                                             "Pydantic model: " \o param_type.name)))
    ELSE IF kind = "class"
    THEN (IF param_type.annotations # <<>>
          THEN <<KV("type", "object"),
                 KV("properties",
                    [i \in 1..Len(param_type.annotations) |->
                        KV(param_type.annotations[i].name,
                           convert_param_type_to_schema_type(
                               param_type.annotations[i].hint,
                               param_type.annotations[i].name))]),
                 KV("description",
                    ClassDescription(param_type.doc,
                                     "Object of type " \o param_type.name))>>
          ELSE <<KV("type", "object"),
                 KV("description",
                    ClassDescription(param_type.doc,
                                     "Object of type " \o param_type.name))>>)
    ELSE LET type_repr ==
                 IF /\ StartsWith(param_type.str, "<class '")
                    /\ Len(param_type.str) >= 2
                    /\ SubSeq(param_type.str, Len(param_type.str) - 1,
                              Len(param_type.str)) = "'>"
                 THEN SubSeq(param_type.str, 9, Len(param_type.str) - 2)
                 ELSE param_type.str
         IN  <<KV("type", "object"),
               KV("description",
                  "Data of type " \o type_repr
                  \o " (schema generation may be incomplete for this type)")>>

(***************************************************************************)
(* The operations of the discovery engine.                                 *)
(***************************************************************************)
NoRet == [op |-> "none", kind |-> "none"]

\* the threads that call inspect_sdk_methods at the same time
Callers == {"a", "b"}

\* a caller outside inspect_sdk_methods
Idle ==
    [pc |-> "idle", client |-> "", i |-> 0, inspected_methods |-> EmptyDict,
     id |-> 0, value |-> NoCache]

NoCallers == [t \in Callers |-> Idle]

\* what a call does to the cache and the bookkeeping, given its outcome r
Publish(r) ==
    /\ cache' = r.cache
    /\ nextId' = IF r.walked THEN nextId + 1 ELSE nextId
    /\ walks' = IF r.walked THEN walks + 1 ELSE walks
    /\ calls' = calls + 1
    /\ UNCHANGED <<shape, prev>>

CallInspect(c) ==
    /\ calls < MaxCalls
    /\ \E r \in {InspectSdkMethods(Graph(shape, c), c, cache, nextId)} :
       /\ ret' = [op |-> "inspect", kind |-> r.kind, client |-> c,
                  walked |-> r.walked, value |-> r.inst]
       /\ Publish(r)
    /\ UNCHANGED <<selVars, callers>>

CallIter(c) ==
    /\ calls < MaxCalls
    /\ \E r \in {InspectSdkMethods(Graph(shape, c), c, cache, nextId)} :
       /\ ret' = [op |-> "iter", kind |-> r.kind, client |-> c,
                  walked |-> r.walked,
                  value |-> IF r.kind = "return"
                            THEN IterCatalog(r.inst.content, 1) ELSE <<>>]
       /\ Publish(r)
    /\ UNCHANGED <<selVars, callers>>

CallGetAllResources(c) ==
    /\ calls < MaxCalls
    /\ \E r \in {InspectSdkMethods(Graph(shape, c), c, cache, nextId)} :
       /\ ret' = [op |-> "get_all_resources", kind |-> r.kind, client |-> c,
                  walked |-> r.walked,
                  value |-> IF r.kind = "return"
                            THEN DictKeys(r.inst.content) ELSE <<>>]
       /\ Publish(r)
    /\ UNCHANGED <<selVars, callers>>

\* a clear that assigns a local name instead of the module's global
ClearInspectionCache_Local ==
    /\ calls < MaxCalls
    /\ cache' = cache
    /\ prev' = IF cache.present THEN cache ELSE prev
    /\ walks' = 0
    /\ calls' = calls + 1
    /\ ret' = [op |-> "clear", kind |-> "return"]
    /\ UNCHANGED <<shape, nextId>>
    /\ UNCHANGED <<selVars, callers>>

\* clear_inspection_cache()
ClearInspectionCache ==
    /\ calls < MaxCalls
    /\ cache' = NoCache
    /\ prev' = IF cache.present THEN cache ELSE prev
    /\ walks' = 0
    /\ calls' = calls + 1
    /\ ret' = [op |-> "clear", kind |-> "return"]
    /\ UNCHANGED <<shape, nextId>>
    /\ UNCHANGED <<selVars, callers>>

NoEnv == [set |-> FALSE, val |-> ""]
NoSel == [op |-> "none"]

Init ==
    /\ shape \in Shapes
    /\ cache = NoCache
    /\ nextId = 1
    /\ ret = NoRet
    /\ walks = 0
    /\ prev = NoCache
    /\ calls = 0
    /\ env = NoEnv
    /\ sel = NoSel
    /\ tools = <<>>
    /\ callers = NoCallers

Next ==
    \/ \E c \in Clients : CallInspect(c)
    \/ \E c \in Clients : CallIter(c)
    \/ \E c \in Clients : CallGetAllResources(c)
    \/ ClearInspectionCache

Spec == Init /\ [][Next]_vars

\* Caller t enters inspect_sdk_methods(client c): the cache check of lines
\* 94-95 and, the cache being absent, lines 97-106, which create the dict
\* inspected_methods of this call.
Enter(t, c) ==
    /\ callers[t].pc = "idle"
    /\ calls < MaxCalls
    /\ calls' = calls + 1
    /\ IF CacheHit(cache)
       THEN /\ callers' = [callers EXCEPT ![t] =
                              [Idle EXCEPT !.pc = "returned", !.client = c,
                                           !.value = cache]]
            /\ UNCHANGED nextId
       ELSE IF Graph(shape, c)[0].module.res = "raises"
       THEN /\ callers' = [callers EXCEPT ![t] =
                              [Idle EXCEPT !.pc = "raised", !.client = c]]
            /\ UNCHANGED nextId
       ELSE /\ callers' = [callers EXCEPT ![t] =
                              [Idle EXCEPT !.pc = "walking", !.client = c,
                                           !.i = 1, !.id = nextId]]
            /\ nextId' = nextId + 1
    /\ UNCHANGED <<shape, cache, ret, walks, prev>>
    /\ UNCHANGED selVars

\* Caller t makes one pass of the loop over the members of the client; an
\* exception the pass does not catch ends the call.
Step(t) ==
    /\ callers[t].pc = "walking"
    /\ ~LoopDone(Graph(shape, callers[t].client), callers[t].i)
    /\ \E r \in {ServiceStep(Graph(shape, callers[t].client), callers[t].client,
                              callers[t].inspected_methods,
                              BaseModuleName(Graph(shape, callers[t].client)),
                              callers[t].i)} :
          callers' = [callers EXCEPT ![t] =
                         [@ EXCEPT !.pc = IF r.exc = "none" THEN "walking"
                                          ELSE "raised",
                                   !.i = IF r.exc = "none" THEN @ + 1 ELSE @,
                                   !.inspected_methods = r.dict]]
    /\ UNCHANGED <<shape, cache, nextId, ret, walks, prev, calls>>
    /\ UNCHANGED selVars

\* Caller t, its loop over, assigns the cache and returns (lines 150-151).
PublishCatalog(t) ==
    /\ callers[t].pc = "walking"
    /\ LoopDone(Graph(shape, callers[t].client), callers[t].i)
    /\ cache' = Instance(callers[t].id, callers[t].inspected_methods,
                         callers[t].client)
    /\ callers' = [callers EXCEPT ![t] =
                      [@ EXCEPT !.pc = "returned",
                                !.value = Instance(callers[t].id,
                                                   callers[t].inspected_methods,
                                                   callers[t].client)]]
    /\ walks' = walks + 1
    /\ UNCHANGED <<shape, nextId, ret, prev, calls>>
    /\ UNCHANGED selVars

\* Caller t, its call over, goes on
Leave(t) ==
    /\ callers[t].pc \in {"returned", "raised"}
    /\ callers' = [callers EXCEPT ![t] = Idle]
    /\ UNCHANGED discVars
    /\ UNCHANGED selVars

\* the clients the concurrent callers pass
ConcurrentShapes ==
    { sh \in Shapes :
        /\ sh.resName = "instances"
        /\ sh.resMod = SdkModule
        /\ sh.subMod = SdkModule
        /\ sh.subMeths = <<M("create", "none"), M("list", "none")>>
        /\ sh.resMeths \in {<<M("create", "none"), M("list", "none")>>,
                            <<M("create", "NameError"), M("list", "none")>>} }

InitConcurrent ==
    /\ shape \in ConcurrentShapes
    /\ cache = NoCache
    /\ nextId = 1
    /\ ret = NoRet
    /\ walks = 0
    /\ prev = NoCache
    /\ calls = 0
    /\ env = NoEnv
    /\ sel = NoSel
    /\ tools = <<>>
    /\ callers = NoCallers

NextConcurrent ==
    \/ \E t \in Callers : \E c \in Clients : Enter(t, c)
    \/ \E t \in Callers : Step(t)
    \/ \E t \in Callers : PublishCatalog(t)
    \/ \E t \in Callers : Leave(t)

SpecConcurrent == InitConcurrent /\ [][NextConcurrent]_vars

\* the engine on clients without failing members and on clients with a
\* reference cycle
NextGraphs ==
    \/ \E c \in {"clean", "cyclic"} : CallInspect(c)
    \/ ClearInspectionCache

SpecGraphs == Init /\ [][NextGraphs]_vars

(***************************************************************************)
(* Python values handed to and returned by the tools.  A value is its type *)
(* and what it holds: the text for a str, the literal for an int, a float  *)
(* or a bool, the items for a list, the items as a dict for a dict, and    *)
(* for any other object what the serializer asks of it.                    *)
(***************************************************************************)
Py(kind, val) ==
    CASE kind = "list" -> [kind |-> kind, items |-> val]
      [] kind = "dict" -> [kind |-> kind, members |-> val]
      [] kind = "object" -> [kind |-> kind, obj |-> val]
      [] OTHER -> [kind |-> kind, val |-> val]

PyNone == Py("None", "None")

\* an object that is none of the above: whether it has a callable
\* model_dump and how calling it ends, its __dict__ if it has one, its str()
PyObject(has_model_dump, dump_raises, dump, has_dict, dict, str) ==
    Py("object", [has_model_dump |-> has_model_dump, dump_raises |-> dump_raises,
                  dump |-> dump, has_dict |-> has_dict, dict |-> dict, str |-> str])

(***************************************************************************)
(* json.loads, for texts without escapes, fractions and exponents.  A      *)
(* parse gives ok, the value and the index after it; ok is FALSE where     *)
(* json.loads raises JSONDecodeError.                                      *)
(***************************************************************************)
JsonFail == [ok |-> FALSE, val |-> PyNone, next |-> 0]

\* the index of the first character at or after i that is not whitespace
RECURSIVE JsonSkip(_, _)
JsonSkip(s, i) ==
    IF i <= Len(s) /\ CharAt(s, i) \in {" ", "\t", "\n", "\r"}
    THEN JsonSkip(s, i + 1) ELSE i

\* the index after the digits that start at i
RECURSIVE JsonDigits(_, _)
JsonDigits(s, i) ==
    IF i <= Len(s) /\ HasChar("0123456789", CharAt(s, i))
    THEN JsonDigits(s, i + 1) ELSE i

RECURSIVE JsonValue(_, _)
RECURSIVE JsonItems(_, _, _)
RECURSIVE JsonMembers(_, _, _)

\* the items of an array after "[" or ",", the first at i
JsonItems(s, i, items) ==
    Only({
        IF ~item.ok THEN JsonFail
        ELSE Only({
            IF after > Len(s) THEN JsonFail
            ELSE IF CharAt(s, after) = ","
            THEN JsonItems(s, JsonSkip(s, after + 1), Append(items, item.val))
            ELSE IF CharAt(s, after) = "]"
            THEN [ok |-> TRUE, val |-> Py("list", Append(items, item.val)),
                  next |-> after + 1]
            ELSE JsonFail
          : after \in {JsonSkip(s, item.next)} })
      : item \in {JsonValue(s, i)} })

\* the members of an object after "{" or ",", the first at i
JsonMembers(s, i, members) ==
    Only({
        IF ~(key.ok /\ key.val.kind = "str") THEN JsonFail
        ELSE Only({
            IF ~(colon <= Len(s) /\ CharAt(s, colon) = ":") THEN JsonFail
            ELSE Only({
                IF ~member.ok THEN JsonFail
                ELSE Only({
                    IF after > Len(s) THEN JsonFail
                    ELSE IF CharAt(s, after) = ","
                    THEN JsonMembers(s, JsonSkip(s, after + 1),
                                     DictPut(members, key.val.val, member.val))
                    ELSE IF CharAt(s, after) = "}"
                    THEN [ok |-> TRUE,
                          val |-> Py("dict", DictPut(members, key.val.val, member.val)),
                          next |-> after + 1]
                    ELSE JsonFail
                  : after \in {JsonSkip(s, member.next)} })
              : member \in {JsonValue(s, JsonSkip(s, colon + 1))} })
          : colon \in {JsonSkip(s, key.next)} })
      : key \in {IF i <= Len(s) /\ CharAt(s, i) = "\"" THEN JsonValue(s, i)
                 ELSE JsonFail} })

\* the value that starts at i
JsonValue(s, i) ==
    IF i > Len(s) THEN JsonFail
    ELSE IF StartsWith(SubSeq(s, i, Len(s)), "null")
    THEN [ok |-> TRUE, val |-> PyNone, next |-> i + 4]
    ELSE IF StartsWith(SubSeq(s, i, Len(s)), "true")
    THEN [ok |-> TRUE, val |-> Py("bool", "True"), next |-> i + 4]
    ELSE IF StartsWith(SubSeq(s, i, Len(s)), "false")
    THEN [ok |-> TRUE, val |-> Py("bool", "False"), next |-> i + 5]
    ELSE IF CharAt(s, i) = "\""
    THEN LET close == FindChar(s, "\"", i + 1)
         IN  IF close = 0 THEN JsonFail
             ELSE [ok |-> TRUE, val |-> Py("str", SubSeq(s, i + 1, close - 1)),
                   next |-> close + 1]
    ELSE IF CharAt(s, i) = "["
    THEN LET first == JsonSkip(s, i + 1)
         IN  IF first <= Len(s) /\ CharAt(s, first) = "]"
             THEN [ok |-> TRUE, val |-> Py("list", <<>>), next |-> first + 1]
             ELSE JsonItems(s, first, <<>>)
    ELSE IF CharAt(s, i) = "{"
    THEN LET first == JsonSkip(s, i + 1)
         IN  IF first <= Len(s) /\ CharAt(s, first) = "}"
             THEN [ok |-> TRUE, val |-> Py("dict", EmptyDict), next |-> first + 1]
             ELSE JsonMembers(s, first, EmptyDict)
    ELSE LET digits == IF CharAt(s, i) = "-" THEN i + 1 ELSE i
             end == IF digits <= Len(s) /\ CharAt(s, digits) = "0"
                    THEN digits + 1 ELSE JsonDigits(s, digits)
         IN  IF end = digits THEN JsonFail
             ELSE [ok |-> TRUE, val |-> Py("int", SubSeq(s, i, end - 1)),
                   next |-> end]

\* json.loads(s): ok and the value, or not ok for JSONDecodeError
JsonLoads(s) ==
    Only({ IF r.ok /\ JsonSkip(s, r.next) = Len(s) + 1 THEN r ELSE JsonFail
         : r \in {JsonValue(s, JsonSkip(s, 1))} })

(***************************************************************************)
(* server.py: the wrapper around an SDK method.                            *)
(***************************************************************************)
\* _serialize_result(result)
RECURSIVE _serialize_result(_)
_serialize_result(result) ==
    IF result.kind \in {"None", "str", "int", "float", "bool"} THEN result
    ELSE IF result.kind = "list"
    THEN Py("list", [i \in 1..Len(result.items) |->
                        _serialize_result(result.items[i])])
    ELSE IF result.kind = "dict"
    THEN Py("dict", [i \in 1..Len(result.members) |->
                        KV(result.members[i].key,
                           _serialize_result(result.members[i].val))])
    ELSE IF result.obj.has_model_dump /\ ~result.obj.dump_raises
    THEN _serialize_result(result.obj.dump)
    ELSE IF result.obj.has_dict
    THEN LET public == SelectSeq(result.obj.dict,
                                 LAMBDA item : ~StartsWith(item.key, "_"))
         IN  Py("dict", [i \in 1..Len(public) |->
                            KV(public[i].key, _serialize_result(public[i].val))])
    ELSE Py("str", result.obj.str)

(***************************************************************************)
(* server.py: the module-level code that selects and registers the tools.  *)
(***************************************************************************)
_TRANSPORT_MAP ==
    <<KV("stdio", "stdio"), KV("http", "streamable-http"),
      KV("stream", "streamable-http"),
      KV("streamable-http", "streamable-http"), KV("sse", "sse")>>

\* TRANSPORT for environment value t of GCORE_TRANSPORT (server.py:140-151)
Transport(t) ==
    LET _transport_raw == Lower(IF t.set THEN t.val ELSE "stdio")
    IN  DictGet(_TRANSPORT_MAP, _transport_raw, "stdio")

\* os.environ[GCORE_TOOLS] after server.py:158-159
EnvAfterTransportDefault(e, transport) ==
    IF transport # "stdio" /\ ~(e.set /\ e.val # "")
    THEN [set |-> TRUE, val |-> "management"]
    ELSE e

\* a parameter of inspect.signature(method): its name, its annotation and
\* whether it has a default
P(name, annotation, has_default) ==
    [name |-> name, annotation |-> annotation, has_default |-> has_default]

\* __doc__ and the parameters of the methods of the server's client that
\* have either, by node and name
Signatures ==
    <<KV(<<2, "create">>,
         [doc |-> Py("str", "Create an instance.\n\nThe volumes are created with it."),
          params |-> <<P("name", Prim("str"), FALSE),
                       P("flavor", Prim("str"), FALSE),
                       P("volumes", Generic("Iterable", "Iterable",
                                    <<Generic("dict", "dict", <<Prim("str"), Prim("Any")>>)>>), FALSE),
                       P("interfaces", Generic("Iterable", "Iterable",
                                    <<Generic("dict", "dict", <<Prim("str"), Prim("Any")>>)>>), FALSE),
                       P("security_groups",
                         UnionType(<<Generic("List", "list", <<Prim("str")>>), NotGiven>>), TRUE),
                       P("count", Prim("int"), TRUE)>>]),
      KV(<<2, "delete">>,
         [doc |-> PyNone,
          params |-> <<P("instance_id", Prim("str"), FALSE)>>]),
      KV(<<2, "list">>,
         [doc |-> Py("str", ""),
          params |-> <<P("limit", UnionType(<<Prim("int"), NoneType>>), TRUE),
                       P("name", UnionType(<<Prim("str"), NoneType>>), TRUE)>>]),
      KV(<<4, "get">>,
         [doc |-> PyNone,
          params |-> <<P("project_id", Prim("int"), FALSE)>>]),
      KV(<<4, "list">>,
         [doc |-> Py("str", "List the projects."), params |-> <<>>]),
      KV(<<5, "create">>,
         [doc |-> Py("str", "Create a volume."),
          params |-> <<P("name", Prim("str"), FALSE),
                       P("size", Prim("int"), FALSE),
                       P("source",
                         LiteralType(<<Lit("str", "'image'"), Lit("str", "'new-volume'")>>),
                         TRUE)>>])>>

\* what inspect.signature(method) and method.__doc__ give
Signature(method_obj) ==
    DictGet(Signatures, <<method_obj.node, method_obj.name>>,
            [doc |-> PyNone, params |-> <<>>])

\* a wrapper whose docstring is the method's, whatever it is
make_wrapper_NoDefaultDoc(method, full_name) ==
    [annotations |->
         [i \in 1..Len(Signature(method).params) |->
             KV(Signature(method).params[i].name,
                IF Signature(method).params[i].has_default
                THEN Other("str | None", FALSE, "")
                ELSE Prim("str"))]
         \o <<KV("return", Prim("Any"))>>,
     doc |-> Signature(method).doc]

\* make_wrapper(method, full_name): the __annotations__ and the __doc__ of
\* the wrapper
make_wrapper(method, full_name) ==
    LET sig == Signature(method).params
        truthy == Signature(method).doc.kind = "str" /\ Signature(method).doc.val # ""
    IN  [annotations |->
             [i \in 1..Len(sig) |->
                 KV(sig[i].name,
                    IF sig[i].has_default
                    THEN Other("str | None", FALSE, "")
                    ELSE Prim("str"))]
             \o <<KV("return", Prim("Any"))>>,
         doc |-> IF truthy THEN Signature(method).doc
                 ELSE Py("str", "Proxy for " \o Backtick \o full_name \o Backtick)]

\* the registration loop (server.py:176-188) over the pairs of
\* iter_sdk_methods: the tools added, in order
RegisterTools(pairs, allowed_tools_short) ==
    LET enabled ==
            SelectSeq(pairs,
                LAMBDA q : generate_short_tool_name(q.full_name, MAX_TOOL_NAME_LEN)
                               \in allowed_tools_short)
    IN  [i \in 1..Len(enabled) |->
            [tool_name |->
                 StrReplace(generate_short_tool_name(enabled[i].full_name,
                                                     MAX_TOOL_NAME_LEN),
                            ".", "_"),
             full_name |-> enabled[i].full_name,
             method_obj |-> enabled[i].method_obj,
             description |->
                 make_wrapper(enabled[i].method_obj, enabled[i].full_name).doc,
             annotations |->
                 make_wrapper(enabled[i].method_obj, enabled[i].full_name).annotations]]

SeqRange(l) == { l[i] : i \in 1..Len(l) }

(***************************************************************************)
(* The operations of the tool selection engine and the server start.       *)
(***************************************************************************)
\* get_allowed_tools_list(all_available_tools)
CallGetAllowedToolsList(avail) ==
    /\ LET r == get_allowed_tools_list(avail, env) IN
       sel' = [op |-> "allowed", env |-> env, avail |-> avail,
               toolset_names |-> r.toolset_names,
               pattern_filters |-> r.pattern_filters,
               result |-> r.result]
    /\ UNCHANGED <<env, tools, callers>>
    /\ UNCHANGED discVars

\* get_active_toolset_names()
CallGetActiveToolsetNames ==
    /\ sel' = [op |-> "active", env |-> env,
               result |-> get_active_toolset_names(env)]
    /\ UNCHANGED <<env, tools, callers>>
    /\ UNCHANGED discVars

\* parse_unified_tool_config(config_str), config_str being the entries of
\* parts, each between pad, joined by commas
CallParse(parts, pad) ==
    /\ LET config_str == Join([i \in 1..Len(parts) |-> pad \o parts[i] \o pad], ",")
           r == parse_unified_tool_config(config_str)
       IN  sel' = [op |-> "parse", parts |-> parts, config_str |-> config_str,
                   toolset_names |-> r.toolset_names,
                   pattern_filters |-> r.pattern_filters]
    /\ UNCHANGED <<env, tools, callers>>
    /\ UNCHANGED discVars

\* generate_short_tool_name(original_dot_name, max_len)
CallGenerateShortToolName(original_dot_name, max_len) ==
    /\ sel' = [op |-> "short", original_dot_name |-> original_dot_name,
               max_len |-> max_len,
               result |-> generate_short_tool_name(original_dot_name, max_len)]
    /\ UNCHANGED <<env, tools, callers>>
    /\ UNCHANGED discVars

\* convert_param_type_to_schema_type(param_type, param_name)
CallConvertParamTypeToSchemaType(param_type, param_name) ==
    /\ sel' = [op |-> "schema", param_type |-> param_type,
               param_name |-> param_name,
               result |-> convert_param_type_to_schema_type(param_type, param_name)]
    /\ UNCHANGED <<env, tools, callers>>
    /\ UNCHANGED discVars

\* The start of the server process (server.py:140-190) with GCORE_TRANSPORT t.
ServerStart(t) ==
    /\ sel.op = "none"
    /\ ~cache.present
    /\ \E r \in {InspectSdkMethods(Graph(shape, "server"), "server", cache,
                                   nextId)} :
       \E pairs \in {IF r.kind = "return" THEN IterCatalog(r.inst.content, 1)
                     ELSE <<>>} :
       \E allowed_tools_short \in
              {SeqRange(get_allowed_tools_list(
                   [given |-> TRUE,
                    names |-> [i \in 1..Len(pairs) |-> pairs[i].full_name]],
                   EnvAfterTransportDefault(env, Transport(t))).result)} :
          /\ env' = EnvAfterTransportDefault(env, Transport(t))
          /\ cache' = r.cache
          /\ nextId' = IF r.walked THEN nextId + 1 ELSE nextId
          /\ walks' = IF r.walked THEN walks + 1 ELSE walks
          /\ ret' = [op |-> "iter", kind |-> r.kind, client |-> "server",
                     walked |-> r.walked, value |-> pairs]
          /\ sel' = [op |-> "server", kind |-> r.kind, env |-> env,
                     transport |-> Transport(t),
                     registered |-> RegisterTools(pairs, allowed_tools_short)]
          /\ tools' = RegisterTools(pairs, allowed_tools_short)
    /\ UNCHANGED <<shape, prev, calls, callers>>

\* a filter that drops every falsy value, the empty ones included
FilterNone_Falsy(kwargs) ==
    SelectSeq(kwargs, LAMBDA item : item \notin {KV(item.key, PyNone),
                                                 KV(item.key, Py("str", "")),
                                                 KV(item.key, Py("list", <<>>)),
                                                 KV(item.key, Py("int", "0"))})

\* filtered_kwargs of async_wrapper: kwargs without the None values
FilterNone(kwargs) == SelectSeq(kwargs, LAMBDA item : item.val.kind # "None")

\* a decoding loop that decodes the strings of every parameter
DecodeJsonParameters_EveryName(filtered_kwargs) ==
    [k \in 1..Len(filtered_kwargs) |->
        IF /\ filtered_kwargs[k].val.kind = "str"
           /\ JsonLoads(filtered_kwargs[k].val.val).ok
        THEN KV(filtered_kwargs[k].key, JsonLoads(filtered_kwargs[k].val.val).val)
        ELSE filtered_kwargs[k]]

\* the loop over json_conversion_params of async_wrapper: filtered_kwargs
\* after it
DecodeJsonParameters(filtered_kwargs) ==
    [k \in 1..Len(filtered_kwargs) |->
        IF /\ filtered_kwargs[k].key \in get_json_conversion_parameters
           /\ filtered_kwargs[k].val.kind = "str"
           /\ JsonLoads(filtered_kwargs[k].val.val).ok
        THEN KV(filtered_kwargs[k].key, JsonLoads(filtered_kwargs[k].val.val).val)
        ELSE filtered_kwargs[k]]

\* a call of the wrapper of the i-th tool with the keyword arguments kwargs,
\* the SDK method given called_with ending as outcome says
InvokeTool(i, kwargs, outcome) ==
    /\ sel.op \in {"server", "invoke"}
    /\ i \in 1..Len(tools)
    /\ \E converted \in { DecodeJsonParameters(FilterNone(kwargs)) } :
          sel' = [op |-> "invoke", tool_name |-> tools[i].tool_name,
                  method_obj |-> tools[i].method_obj,
                  kwargs |-> kwargs,
                  called_with |-> converted,
                  kind |-> outcome.kind,
                  result |-> IF outcome.kind = "return"
                             THEN _serialize_result(outcome.val)
                             ELSE Py("exception", outcome.exc)]
    /\ UNCHANGED <<env, tools, callers>>
    /\ UNCHANGED discVars

(***************************************************************************)
(* The inputs of the selection engine.                                     *)
(***************************************************************************)
MaxEntries == 2

\* entries a configuration string is made of
ConfigEntries ==
    {"", "instances", "management", "networking", "storage", "nosuch set",
     "cloud.volumes.*", "cloud.*.list"}

Pads == {"", " ", " \t"}

RECURSIVE SeqsUpTo(_, _)
SeqsUpTo(S, n) ==
    IF n = 0 THEN {<<>>}
    ELSE LET shorter == SeqsUpTo(S, n - 1) IN
         shorter \cup { Append(q, x) : q \in shorter, x \in S }

ConfigParts == SeqsUpTo(ConfigEntries, MaxEntries) \ {<<>>}

\* entries handed to parse_unified_tool_config
ParseEntries ==
    {"", "instances", "storage", "Instances", "nosuch set", "cloud.*.list"}

ParseParts == SeqsUpTo(ParseEntries, MaxEntries) \ {<<>>}

ConfigStrings ==
    { Join([i \in 1..Len(parts) |-> pad \o parts[i] \o pad], ",")
        : parts \in ConfigParts, pad \in Pads }

Environments ==
    {NoEnv} \cup { [set |-> TRUE, val |-> v] : v \in ConfigStrings }

\* lists of full names handed to get_allowed_tools_list
AvailableLists ==
    { [given |-> FALSE, names |-> <<>>],
      [given |-> TRUE, names |-> <<>>],
      [given |-> TRUE,
       names |-> <<"cloud.instances.create", "cloud.instances.delete",
                   "cloud.volumes.create", "cloud.volumes.delete">>],
      [given |-> TRUE,
       names |-> <<"cloud.volumes.list", "cloud.instances.flavors.list",
                   "cloud.instances.flavors.list_suitable",
                   "cloud.instances.list", "dns.zones.list",
                   "cloud.volumes.list">>] }

TransportValues ==
    {NoEnv} \cup { [set |-> TRUE, val |-> v] :
                     v \in {"stdio", "http", "HTTP", "stream",
                            "streamable-http", "sse", "carrier-pigeon"} }

ServerShape == CHOOSE sh \in Shapes : sh.svcMeths = <<>>

InitSelect ==
    /\ shape = ServerShape
    /\ cache = NoCache
    /\ nextId = 1
    /\ ret = NoRet
    /\ walks = 0
    /\ prev = NoCache
    /\ calls = 0
    /\ env \in Environments
    /\ sel = NoSel
    /\ tools = <<>>
    /\ callers = NoCallers

NextSelect ==
    \/ \E avail \in AvailableLists : CallGetAllowedToolsList(avail)
    \/ CallGetActiveToolsetNames
    \/ \E t \in TransportValues : ServerStart(t)

SpecSelect == InitSelect /\ [][NextSelect]_vars

InitParse ==
    /\ shape = ServerShape
    /\ cache = NoCache
    /\ nextId = 1
    /\ ret = NoRet
    /\ walks = 0
    /\ prev = NoCache
    /\ calls = 0
    /\ env = NoEnv
    /\ sel = NoSel
    /\ tools = <<>>
    /\ callers = NoCallers

NextParse == \E parts \in ParseParts, pad \in Pads : CallParse(parts, pad)

SpecParse == InitParse /\ [][NextParse]_vars

MaxPatternLen == 3
MaxNameLen == 3

RECURSIVE StringsUpTo(_, _)
StringsUpTo(alphabet, n) ==
    IF n = 0 THEN {""}
    ELSE LET shorter == StringsUpTo(alphabet, n - 1) IN
         shorter \cup { x \o c : x \in shorter, c \in alphabet }

MatchPatterns == StringsUpTo({"a", ".", "*"}, MaxPatternLen) \ {""}
MatchNames == StringsUpTo({"a", "b", "."}, MaxNameLen)

InitMatch ==
    /\ shape = ServerShape
    /\ cache = NoCache
    /\ nextId = 1
    /\ ret = NoRet
    /\ walks = 0
    /\ prev = NoCache
    /\ calls = 0
    /\ env \in { [set |-> TRUE, val |-> pat] : pat \in MatchPatterns }
    /\ sel = NoSel
    /\ tools = <<>>
    /\ callers = NoCallers

NextMatch ==
    \E n \in MatchNames :
        CallGetAllowedToolsList([given |-> TRUE, names |-> <<n>>])

SpecMatch == InitMatch /\ [][NextMatch]_vars


\* segments of the dotted names handed to generate_short_tool_name
NameSegments == {"", "cloud", "create", "instances", "interfaces"}

\* dotted names of one, two and three segments
DottedNames ==
    { Join(q, ".") : q \in { <<a>> : a \in NameSegments }
                         \cup (NameSegments \X NameSegments)
                         \cup (NameSegments \X NameSegments \X NameSegments) }

\* values of max_len, the default among them
MaxLenValues == {0, 14, 15, MAX_TOOL_NAME_LEN}

InitCall ==
    /\ shape = ServerShape
    /\ cache = NoCache
    /\ nextId = 1
    /\ ret = NoRet
    /\ walks = 0
    /\ prev = NoCache
    /\ calls = 0
    /\ env = NoEnv
    /\ sel = NoSel
    /\ tools = <<>>
    /\ callers = NoCallers

NextShort ==
    \E n \in DottedNames, max_len \in MaxLenValues :
        CallGenerateShortToolName(n, max_len)

SpecShort == InitCall /\ [][NextShort]_vars

(***************************************************************************)
(* The inputs of the type translator.                                      *)
(***************************************************************************)
\* inspect.getdoc(dict), the docstring a TypedDict without one inherits
DictDoc ==
    "dict() -> new empty dictionary\ndict(mapping) -> new dictionary initialized from a mapping object's\n    (key, value) pairs\ndict(iterable) -> new dictionary initialized as if via:\n    d = {}\n    for k, v in iterable:\n        d[k] = v\ndict(**kwargs) -> new dictionary initialized with the name=value pairs\n    in the keyword argument list.  For example:  dict(one=1, two=2)"

\* tests/conftest.py: MockVolumeSpec
MockVolumeSpec ==
    TypedDictType("MockVolumeSpec", "Mock volume specification for testing.", FALSE,
        <<F("source", Marked("Required", LiteralType(
               <<Lit("str", "'image'"), Lit("str", "'snapshot'"), Lit("str", "'volume'")>>))),
          F("image_id", Marked("NotRequired", Prim("str"))),
          F("snapshot_id", Marked("NotRequired", Prim("str"))),
          F("volume_id", Marked("NotRequired", Prim("str"))),
          F("size", Marked("NotRequired", Prim("int"))),
          F("boot_index", Marked("NotRequired", Prim("int")))>>)

\* tests/conftest.py: MockNetworkInterface
MockNetworkInterface ==
    TypedDictType("MockNetworkInterface", "Mock network interface configuration.", TRUE,
        <<F("type", LiteralType(<<Lit("str", "'external'"), Lit("str", "'internal'")>>)),
          F("network_id", UnionType(<<Prim("str"), NoneType>>)),
          F("subnet_id", UnionType(<<Prim("str"), NoneType>>)),
          F("security_groups",
            UnionType(<<Generic("list", "list", <<Prim("str")>>), NoneType>>))>>)

\* the annotations the translator is called with, kind by kind
ParamTypes ==
    LET
        LiteralTypes ==
            { LiteralType(<<>>),
              LiteralType(<<Lit("str", "'small'"), Lit("str", "'medium'"), Lit("str", "'large'")>>),
              LiteralType(<<Lit("bool", "True"), Lit("int", "1")>>),
              LiteralType(<<Lit("int", "1"), Lit("str", "'a'")>>),
              LiteralType(<<Lit("float", "1.5"), Lit("int", "2")>>),
              LiteralType(<<Lit("NoneType", "None"), Lit("int", "0")>>),
              LiteralType(<<Lit("bytes", "b'x'"), Lit("bool", "False")>>) }
        UnionTypes ==
            { UnionType(<<Prim("str"), NoneType>>),
              UnionType(<<NoneType, Prim("int")>>),
              UnionType(<<Prim("str"), NotGiven>>),
              UnionType(<<NoneType, NotGiven>>),
              UnionType(<<Prim("str"), Prim("int")>>),
              UnionType(<<Prim("str"), Generic("list", "list", <<Prim("int")>>), NoneType>>),
              UnionType(<<Prim("int"), NotGiven, Prim("str")>>),
              UnionType(<<LiteralType(<<Lit("str", "'a'")>>), NoneType>>),
              UnionType(<<Generic("list", "list", <<MockVolumeSpec>>), NotGiven>>),
              UnionType(<<MockVolumeSpec, Prim("str")>>),
              UnionType(<<Prim("int"), Other("ForwardRef('Volume')", FALSE, "")>>),
              UnionType(<<Generic("List", "list", <<Prim("str")>>), Generic("dict", "dict", <<Prim("str"), Prim("Any")>>), NoneType>>) }
        WrappedTypes ==
            { Marked("Required", Prim("int")),
              Marked("Required", Prim("Any")),
              Marked("Required", LiteralType(<<Lit("int", "1")>>)),
              Marked("Required", UnionType(<<Prim("str"), NoneType>>)),
              Marked("NotRequired", Prim("str")),
              Marked("NotRequired", UnionType(<<Prim("str"), Prim("int")>>)) }
        TypedDictTypes ==
            { MockVolumeSpec, MockNetworkInterface,
              TypedDictType("Plain", DictDoc, TRUE, <<F("a", Prim("int"))>>),
              TypedDictType("Tag", DictDoc, TRUE,
                  <<F("key", Prim("str")), F("value", Marked("NotRequired", Prim("str")))>>),
              TypedDictType("Loose", "Loose options.\n\nEvery field may be left out.", FALSE,
                  <<F("limit", Prim("int")), F("offset", UnionType(<<Prim("int"), NoneType>>))>>),
              TypedDictType("Volume",
                  "A volume.\n\nsize: the size\n    in GiB\nname (str): its name\n\nsource (str)\nSee the API reference.",
                  TRUE,
                  <<F("name", Prim("str")), F("size", Marked("Required", Prim("int"))),
                    F("source", UnionType(<<Prim("str"), NoneType>>)),
                    F("_id", Marked("NotRequired", Prim("str"))), F("Zone", Prim("str"))>>),
              TypedDictType("Empty", "size: no field of this name", TRUE, <<>>) }
        ArrayTypes ==
            { Generic("list", "list", <<Prim("str")>>),
              Generic("list", "list", <<MockVolumeSpec>>),
              Generic("list", "list", <<MockNetworkInterface>>),
              Generic("List", "list", <<>>),
              Generic("list", "list", <<Prim("None")>>),
              Generic("tuple", "tuple", <<Prim("int"), Prim("str")>>),
              Generic("set", "set", <<UnionType(<<Prim("int"), NoneType>>)>>),
              Generic("Sequence", "Sequence", <<Generic("dict", "dict", <<Prim("str"), Prim("Any")>>)>>),
              Generic("Iterable", "Iterable", <<UnionType(<<Prim("int"), Prim("str")>>)>>),
              Generic("Collection", "Collection", <<Other("42", FALSE, "")>>),
              Generic("AbstractSet", "Set", <<Generic("list", "list", <<Prim("float")>>)>>) }
        DictTypes ==
            { Generic("dict", "dict", <<Prim("str"), Prim("int")>>),
              Generic("Dict", "dict", <<>>),
              Generic("dict", "dict", <<Prim("str"), Generic("list", "list", <<Prim("str")>>)>>),
              Generic("dict", "dict", <<Prim("str"), Prim("None")>>) }
        ModelTypes ==
            { PydanticModel("Instance", "An instance.\n\nMore about it.", TRUE, EmptyDict),
              PydanticModel("Flavor", "", TRUE, EmptyDict),
              PydanticModel("Instance", "An instance.\n\nMore about it.", FALSE,
                            <<KV("title", "Instance")>>),
              PydanticModel("Flavor", "", FALSE,
                            <<KV("description", "A flavor."), KV("type", "object")>>),
              PydanticModel("Names", "dict() -> inherited", FALSE, <<KV("type", "array")>>) }
        ClassTypes ==
            { Class("CustomClass", "", <<>>),
              Class("list", "Built-in mutable sequence.\n\nIf no argument is given, the constructor creates a new empty list.\nThe argument must be an iterable if specified.", <<>>),
              Class("Options", DictDoc, <<>>),
              Class("Point", " A point.\n\nTwo coordinates.", <<F("x", Prim("int")), F("y", UnionType(<<Prim("float"), NoneType>>))>>),
              Class("Pair", "", <<F("volumes", Generic("list", "list", <<Prim("str")>>))>>) }
        OtherTypes ==
            { Other("~T", TRUE, "T"),
              Other("typing.Required", TRUE, "Required"),
              Other("ForwardRef('Volume')", FALSE, ""),
              Other("<class 'Proxy'>", FALSE, "") }
    IN  { Prim(k) : k \in {"int", "float", "bool", "str", "Any", "empty", "None", "NoneType"} }
        \cup LiteralTypes \cup UnionTypes \cup WrappedTypes \cup TypedDictTypes
        \cup ArrayTypes \cup DictTypes \cup ModelTypes \cup ClassTypes \cup OtherTypes

\* parameter names: none, unknown to the domain handler, and the special ones
ParamNames == {"", "count"} \cup GCORE_SPECIAL_PARAMETERS

NextSchema ==
    \E param_type \in ParamTypes, param_name \in ParamNames :
        CallConvertParamTypeToSchemaType(param_type, param_name)

SpecSchema == InitCall /\ [][NextSchema]_vars

(***************************************************************************)
(* Calls of the registered tools.                                          *)
(***************************************************************************)
\* keyword arguments a caller hands to a tool
ToolArguments ==
    { <<>>,
      <<KV("name", Py("str", "vm"))>>,
      <<KV("volumes", Py("str", "[{\"size\": 10, \"source\": \"new-volume\"}]"))>>,
      <<KV("volumes", Py("str", "not json"))>>,
      <<KV("volumes", Py("list", <<Py("dict", <<KV("size", Py("int", "10"))>>)>>))>>,
      <<KV("name", Py("str", "vm")), KV("volumes", PyNone)>>,
      <<KV("interfaces", Py("str", "[{\"type\": \"external\"}]")),
        KV("security_groups", Py("str", "[\"default\"]"))>>,
      <<KV("security_groups", Py("str", "[1,]"))>>,
      <<KV("name", Py("str", "[1, 2]")), KV("count", Py("int", "2"))>>,
      <<KV("volumes", Py("str", "null"))>>,
      <<KV("volumes", Py("str", ""))>>,
      <<KV("interfaces", Py("str", " [ ] "))>>,
      <<KV("name", PyNone), KV("count", PyNone),
        KV("volumes", Py("str", "{\"a\": [true, false, null]}"))>>,
      <<KV("security_groups", Py("str", "\"x\""))>>,
      <<KV("volumes", Py("str", "[1] x"))>>,
      <<KV("interfaces", Py("int", "5")), KV("volumes", Py("str", "5"))>>,
      <<KV("volumes", Py("str", "{\"a\": 1, \"a\": 2}"))>>,
      <<KV("security_groups", Py("str", "["))>>,
      <<KV("name", Py("str", "")), KV("count", PyNone)>>,
      <<KV("security_groups", Py("list", <<>>)), KV("count", Py("int", "0")),
        KV("name", PyNone)>> }

\* how the call of the SDK method ends
Outcomes ==
    { [kind |-> "return", val |-> PyNone],
      [kind |-> "return", val |-> Py("str", "ok")],
      [kind |-> "return",
       val |-> Py("list", <<Py("int", "1"),
                            PyObject(FALSE, FALSE, PyNone, FALSE, EmptyDict, "<Page>")>>)],
      [kind |-> "return",
       val |-> PyObject(TRUE, FALSE,
                        Py("dict", <<KV("id", Py("str", "i-1")),
                                     KV("tags", Py("list", <<>>))>>),
                        TRUE, <<KV("id", Py("str", "i-1"))>>, "Instance()")],
      [kind |-> "return",
       val |-> PyObject(TRUE, TRUE, PyNone, TRUE,
                        <<KV("_client", Py("str", "c")), KV("id", Py("int", "7"))>>,
                        "Task()")],
      [kind |-> "raise", exc |-> "TypeError"],
      [kind |-> "raise", exc |-> "APIError"] }

InitInvoke ==
    /\ shape = ServerShape
    /\ cache = NoCache
    /\ nextId = 1
    /\ ret = NoRet
    /\ walks = 0
    /\ prev = NoCache
    /\ calls = 0
    /\ env \in { [set |-> TRUE, val |-> "instances"],
                 [set |-> TRUE, val |-> "cloud.volumes.*"] }
    /\ sel = NoSel
    /\ tools = <<>>
    /\ callers = NoCallers

NextInvoke ==
    \/ ServerStart(NoEnv)
    \/ \E i \in 1..Len(tools) : \E kwargs \in ToolArguments :
          \E outcome \in Outcomes : InvokeTool(i, kwargs, outcome)

SpecInvoke == InitInvoke /\ [][NextInvoke]_vars

(***************************************************************************)
(* Properties of the discovery engine and its cache.                       *)
(***************************************************************************)
CallOps == {"inspect", "iter", "get_all_resources"}

\* C1: while the cache is present (no clear in between), every call returns,
\* walks nothing and leaves the cached instance as it is, and every
\* inspect_sdk_methods call returns that very instance; the call that finds
\* the cache absent and returns is the one traversal of the epoch and
\* publishes the instance it returns.
C1_SameInstanceWithinEpoch ==
    [][ ret'.op \in CallOps =>
          /\ cache.present =>
                /\ cache' = cache
                /\ walks' = walks
                /\ nextId' = nextId
                /\ ret'.kind = "return"
                /\ ~ret'.walked
                /\ ret'.op = "inspect" => ret'.value = cache
          /\ (~cache.present /\ ret'.kind = "return") =>
                /\ ret'.walked
                /\ walks' = walks + 1
                /\ cache'.present /\ cache'.id = nextId
                /\ ret'.op = "inspect" => ret'.value = cache'
          /\ cache'.present => walks' = 1 ]_vars

\* a second inspect_sdk_methods call of an epoch got the instance of the first
C1_Witness ==
    /\ ret.op = "inspect" /\ ret.kind = "return" /\ ~ret.walked
    /\ cache.present /\ ret.value = cache
    /\ Len(cache.content) > 0
    /\ walks = 1 /\ calls >= 2

\* C2: clear_inspection_cache leaves the cache absent; the inspect_sdk_methods
\* call that follows it walks the graph again and returns a new instance,
\* distinct from the one held before the clear; for the same client object it
\* does return, and the new catalog has the content of the old one (same
\* paths, same methods, same order).
C2_ClearThenFreshEqualCatalog ==
    [][ /\ ret'.op = "clear" => ~cache'.present
        /\ (ret.op = "clear" /\ ret'.op = "inspect" /\ prev.present) =>
              /\ ret'.client = prev.client => ret'.kind = "return"
              /\ ret'.kind = "return" =>
                    /\ ret'.walked
                    /\ cache' = ret'.value
                    /\ ret'.value.id # prev.id
                    /\ ret'.client = prev.client =>
                           ret'.value.content = prev.content ]_vars

\* an instance was built, the cache cleared, and the same client inspected again
C2_Witness ==
    /\ ret.op = "inspect" /\ ret.kind = "return" /\ ret.walked
    /\ prev.present /\ prev.client = ret.client
    /\ ret.value.id # prev.id
    /\ ret.value.content = prev.content
    /\ Len(ret.value.content) > 1

\* C3: no key of a returned catalog maps to an empty method mapping.
C3_NoEmptyEntry ==
    (ret.op = "inspect" /\ ret.kind = "return") =>
        \A i \in 1..Len(ret.value.content) : Len(ret.value.content[i].val) > 0

\* the segments of the keys of catalog content d, and its method names
PathSegments(d) ==
    UNION { { Split(d[i].key, ".")[k] : k \in 1..Len(Split(d[i].key, ".")) }
            : i \in 1..Len(d) }

MethodNames(d) ==
    UNION { { d[i].val[j].key : j \in 1..Len(d[i].val) } : i \in 1..Len(d) }

\* C4: no denylisted name is traversed as a child node (a segment of a
\* catalog path) or recorded as a method, at any level.
C4_DenylistNeverRecorded ==
    (ret.op = "inspect" /\ ret.kind = "return") =>
        /\ PathSegments(ret.value.content) \cap skip_names = {}
        /\ MethodNames(ret.value.content) \cap skip_names = {}

\* the (path, method) records of catalog content d
Records(d) ==
    UNION { { <<d[i].key, d[i].val[j].key>> : j \in 1..Len(d[i].val) }
            : i \in 1..Len(d) }

\* C5: every inspect_sdk_methods call returns a catalog, whatever resolution
\* fails, and the catalog holds exactly the records it would hold were the
\* failing members not there.
C5_FailuresAreLocal ==
    ret.op = "inspect" =>
        /\ ret.kind = "return"
        /\ Records(ret.value.content) =
              Records(Traverse(WithoutFailingMembers(Graph(shape, ret.client)),
                               ret.client).dict)

(***************************************************************************)
(* Properties of the tool selection engine.                                *)
(***************************************************************************)
\* C6: with GCORE_TOOLS set to the empty string, get_allowed_tools_list and
\* get_active_toolset_names return nothing, and the server started with
\* that environment registers no tool, whatever the transport.
C6_EmptyValueSelectsNothing ==
    /\ (sel.op \in {"allowed", "active"} /\ sel.env.set /\ sel.env.val = "")
           => sel.result = <<>>
    /\ (sel.op = "server" /\ sel.env.set /\ sel.env.val = "")
           => sel.registered = <<>>

\* the members of the default toolsets, management then instances
DefaultToolsetMembers ==
    DictGet(TOOLSETS, "management", <<>>) \o DictGet(TOOLSETS, "instances", <<>>)

\* x occurs in l for the first time at position i
FirstAt(l, x, i) == l[i] = x /\ \A j \in 1..(i - 1) : l[j] # x

\* l is m without its repeated elements, the first occurrence of each kept
IsDeduplicationOf(l, m) ==
    /\ SeqRange(l) = SeqRange(m)
    /\ Cardinality(SeqRange(l)) = Len(l)
    /\ \A i \in 1..(Len(l) - 1) :
           \E a, b \in 1..Len(m) :
               a < b /\ FirstAt(m, l[i], a) /\ FirstAt(m, l[i + 1], b)

\* C7: with GCORE_TOOLS not set, get_allowed_tools_list returns the
\* de-duplicated members of management followed by those of instances,
\* whatever list of available names it is given.
C7_UnsetGivesDefaults ==
    (sel.op = "allowed" /\ ~sel.env.set)
        => IsDeduplicationOf(sel.result, DefaultToolsetMembers)

C7_Witness ==
    /\ sel.op = "allowed"
    /\ ~sel.env.set
    /\ sel.avail.given
    /\ \E i \in 1..Len(sel.avail.names) :
           generate_short_tool_name(sel.avail.names[i], MAX_TOOL_NAME_LEN)
               \notin SeqRange(sel.result)
    /\ Len(sel.result) > 0

\* Whether pattern p from position i on matches all of s from position j on,
\* "*" standing for any run of characters and every other character for
\* itself.
RECURSIVE GlobMatch(_, _, _, _)
GlobMatch(p, i, s, j) ==
    IF i > Len(p) THEN j > Len(s)
    ELSE IF CharAt(p, i) = "*"
    THEN \E k \in j..(Len(s) + 1) : GlobMatch(p, i + 1, s, k)
    ELSE j <= Len(s) /\ CharAt(s, j) = CharAt(p, i) /\ GlobMatch(p, i + 1, s, j + 1)

\* the relation between patterns and names that the specification states
AnchoredSelects(p, n) == p = n \/ (HasChar(p, "*") /\ GlobMatch(p, 1, n, 1))

\* C8: a pattern selects an available full name iff it equals the name or
\* contains "*" and the whole name matches it, "*" standing for any run of
\* characters; and that is matching the regex of convert_pattern_to_regex.
C8_SelectsIffAnchoredMatch ==
    (sel.op = "allowed" /\ Len(sel.pattern_filters) = 1
         /\ Len(sel.toolset_names) = 0 /\ Len(sel.avail.names) = 1)
        => LET p == sel.pattern_filters[1]
               n == sel.avail.names[1]
           IN  /\ (Len(sel.result) > 0) <=> AnchoredSelects(p, n)
               /\ (Len(sel.result) > 0) <=> ReMatch(convert_pattern_to_regex(p), n)

\* the members of the configured known toolsets, in configuration order
RECURSIVE ConfiguredMembers(_)
ConfiguredMembers(names) ==
    IF Len(names) = 0 THEN <<>>
    ELSE DictGet(TOOLSETS, names[1], <<>>) \o ConfiguredMembers(Tail(names))

\* the shortened names of the available names some pattern matches
MatchedShortNames(patterns, avail) ==
    { generate_short_tool_name(avail.names[i], MAX_TOOL_NAME_LEN) :
        i \in { k \in 1..Len(avail.names) :
                  \E q \in 1..Len(patterns) :
                      AnchoredSelects(patterns[q], avail.names[k]) } }

\* C9: get_allowed_tools_list returns, without duplicates, the members of
\* the configured known toolsets (configuration order, first occurrence
\* kept) and after them the shortened names of the available names matched
\* by a pattern; without available names it returns the toolset members only.
C9_ToolsetsThenPatternMatches ==
    sel.op = "allowed"
        => LET members == ConfiguredMembers(sel.toolset_names)
               T == SeqRange(members)
               k == Cardinality(T)
               res == sel.result
           IN  /\ Cardinality(SeqRange(res)) = Len(res)
               /\ Len(res) >= k
               /\ IsDeduplicationOf(SubSeq(res, 1, k), members)
               /\ MatchedShortNames(sel.pattern_filters, sel.avail)
                      \subseteq SeqRange(res)
               /\ \A i \in (k + 1)..Len(res) :
                      \E a \in 1..Len(sel.avail.names) :
                          res[i] = generate_short_tool_name(sel.avail.names[a],
                                                            MAX_TOOL_NAME_LEN)
               /\ (~sel.avail.given \/ Len(sel.avail.names) = 0) => Len(res) = k

C9_Witness ==
    /\ sel.op = "allowed"
    /\ Len(sel.toolset_names) > 0
    /\ Len(sel.pattern_filters) > 0
    /\ LET T == SeqRange(ConfiguredMembers(sel.toolset_names)) IN
       /\ T # {}
       /\ \E i \in 1..Len(sel.result) : sel.result[i] \notin T
       /\ MatchedShortNames(sel.pattern_filters, sel.avail) \cap T # {}

\* C10: parse_unified_tool_config splits on commas, trims, drops the empty
\* entries and puts each remaining entry in exactly one list: the toolset
\* names if it is a key of TOOLSETS, the patterns otherwise, in order.
C10_ParseClassifiesEachEntryOnce ==
    sel.op = "parse"
        => /\ sel.toolset_names =
                  SelectSeq(sel.parts, LAMBDA e : e # "" /\ HasKey(TOOLSETS, e))
           /\ sel.pattern_filters =
                  SelectSeq(sel.parts, LAMBDA e : e # "" /\ ~HasKey(TOOLSETS, e))

C10_Witness ==
    /\ sel.op = "parse"
    /\ Len(sel.toolset_names) = 1
    /\ Len(sel.pattern_filters) = 1
    /\ Len(sel.config_str) > Len(sel.toolset_names[1]) + Len(sel.pattern_filters[1]) + 1

(***************************************************************************)
(* Properties of the naming layer.                                         *)
(***************************************************************************)
\* the short form of one segment: the supplementary rules first, then the
\* domain's rules, the segment itself when no rule names it
ShortSegment(seg) ==
    IF HasKey(additional_rules, seg) THEN DictGet(additional_rules, seg, seg)
    ELSE IF HasKey(get_method_shortening_rules, seg)
    THEN DictGet(get_method_shortening_rules, seg, seg)
    ELSE DictGet(get_resource_shortening_rules, seg, seg)

\* the segments of a dotted name, mapped one by one and joined by dots
RECURSIVE ShortSegments(_, _)
ShortSegments(n, from) ==
    LET dot == FindChar(n, ".", from) IN
    IF dot = 0 THEN ShortSegment(SubSeq(n, from, Len(n)))
    ELSE ShortSegment(SubSeq(n, from, dot - 1)) \o "." \o ShortSegments(n, dot + 1)

Keys(d) == { d[i].key : i \in 1..Len(d) }

\* the members of a union other than NoneType and NotGiven, in order
Remaining(t) == SelectSeq(t.args, LAMBDA arg : arg.kind # "NoneType" /\ arg # NotGiven)

\* a union with a NoneType or NotGiven member
HasNullMember(t) ==
    \E i \in 1..Len(t.args) : t.args[i].kind = "NoneType" \/ t.args[i] = NotGiven

\* C13: convert_param_type_to_schema_type returns, for every annotation, a
\* mapping that has a "type" key.
C13_AlwaysTypeKey ==
    sel.op = "schema" => HasKey(sel.result, "type")

\* C14: a union with one member left after NoneType and NotGiven are taken
\* out gives that member's fragment, its description followed by
\* " (optional)", or "Optional" if it had none; a union with two or more
\* left gives a oneOf of one fragment per member left, in order, then one
\* {type: null} exactly when NoneType or NotGiven was a member.
C14_UnionCollapse ==
    (sel.op = "schema" /\ sel.param_type.kind = "Union")
        => LET rem == Remaining(sel.param_type)
               nullable == HasNullMember(sel.param_type)
               own == convert_param_type_to_schema_type(rem[1], sel.param_name)
               oneOf == DictGet(sel.result, "oneOf", <<>>)
           IN  /\ Len(rem) = 1
                   => /\ Keys(sel.result) = Keys(own) \cup {"description"}
                      /\ \A k \in Keys(own) \ {"description"} :
                             DictGet(sel.result, k, "") = DictGet(own, k, "")
                      /\ DictGet(sel.result, "description", "")
                             = IF HasKey(own, "description")
                               THEN DictGet(own, "description", "") \o " (optional)"
                               ELSE "Optional"
               /\ Len(rem) >= 2
                   => /\ HasKey(sel.result, "oneOf")
                      /\ Len(oneOf) = Len(rem) + (IF nullable THEN 1 ELSE 0)
                      /\ \A i \in 1..Len(rem) :
                             oneOf[i] = convert_param_type_to_schema_type(
                                            rem[i], GetAttrName(rem[i], sel.param_name))
                      /\ nullable => oneOf[Len(oneOf)] = <<KV("type", "null")>>

C14_Witness ==
    /\ sel.op = "schema"
    /\ sel.param_type =
           UnionType(<<Prim("str"), Generic("list", "list", <<Prim("int")>>), NoneType>>)
    /\ Len(DictGet(sel.result, "oneOf", <<>>)) = 3
    /\ DictGet(sel.result, "oneOf", <<>>)[3] = <<KV("type", "null")>>

\* the type a field is declared with, inside Required or NotRequired
Declared(hint) ==
    IF hint.kind \in {"Required", "NotRequired"} THEN hint.args[1] ELSE hint

\* the fields of a TypedDict that are required: not marked NotRequired,
\* marked Required if the TypedDict is total=False, and not of a nullable type
RequiredFields(t) ==
    { t.fields[i].name : i \in { j \in 1..Len(t.fields) :
          /\ t.fields[j].hint.kind # "NotRequired"
          /\ t.total \/ t.fields[j].hint.kind = "Required"
          /\ ~(Declared(t.fields[j].hint).kind = "Union"
               /\ HasNullMember(Declared(t.fields[j].hint))) } }

\* C15: the "required" list of a TypedDict's fragment is its required
\* fields, each once and in ascending order, and there is no "required" key
\* when no field is required.
C15_RequiredListsRequiredFields ==
    (sel.op = "schema" /\ sel.param_type.kind = "TypedDict")
        => LET required == DictGet(sel.result, "required", <<>>)
           IN  IF RequiredFields(sel.param_type) = {}
               THEN ~HasKey(sel.result, "required")
               ELSE /\ HasKey(sel.result, "required")
                    /\ { required[i] : i \in 1..Len(required) }
                           = RequiredFields(sel.param_type)
                    /\ \A i \in 1..(Len(required) - 1) :
                           StrLess(required[i], required[i + 1])

\* C16: the "enum" of a literal's fragment is the literal's values as they
\* stand and in their order, and its "type" follows the first value alone:
\* boolean for a bool, else integer for an int, else number for a float,
\* else string.
C16_LiteralEnumAndType ==
    (sel.op = "schema" /\ sel.param_type.kind = "Literal"
                       /\ sel.param_type.values # <<>>)
        => LET first == sel.param_type.values[1].kind
           IN  /\ DictGet(sel.result, "enum", <<>>) = sel.param_type.values
               /\ HasKey(sel.result, "enum")
               /\ DictGet(sel.result, "type", "")
                      = CASE first = "bool" -> "boolean"
                          [] first = "int" -> "integer"
                          [] first = "float" -> "number"
                          [] OTHER -> "string"

C16_Witness ==
    /\ sel.op = "schema"
    /\ sel.param_type = LiteralType(<<Lit("bool", "True"), Lit("int", "1")>>)
    /\ DictGet(sel.result, "type", "") = "boolean"
    /\ Len(DictGet(sel.result, "enum", <<>>)) = 2

\* the call produced an array fragment or a oneOf fragment
ProducedArray == sel.op = "schema" /\ IsListLike(sel.param_type)
ProducedUnion ==
    /\ sel.op = "schema"
    /\ sel.param_type.kind = "Union"
    /\ Len(Remaining(sel.param_type)) >= 2

\* the description such a fragment has for a parameter the domain handler
\* does not know
GenericDescription ==
    IF ProducedArray
    THEN LET item_type == IF sel.param_type.args # <<>>
                          THEN sel.param_type.args[1] ELSE Prim("Any")
         IN  "Array of " \o GetAttrName(item_type, Str(item_type))
    ELSE LET rem == Remaining(sel.param_type)
         IN  "One of the following types: "
             \o Join([i \in 1..Len(rem) |-> GetAttrName(rem[i], Str(rem[i]))], ", ")
             \o (IF HasNullMember(sel.param_type) THEN " or null" ELSE "")

\* C17 as stated: an array or union fragment for a special parameter name
\* has another description than the generic one and has examples; for any
\* other name it has the generic description and no examples.
C17_EnrichedForEverySpecialName ==
    (ProducedArray \/ ProducedUnion)
        => IF sel.param_name \in GCORE_SPECIAL_PARAMETERS
           THEN /\ DictGet(sel.result, "description", "") # GenericDescription
                /\ HasKey(sel.result, "examples")
                /\ DictGet(sel.result, "examples", <<>>) # <<>>
           ELSE /\ DictGet(sel.result, "description", "") = GenericDescription
                /\ ~HasKey(sel.result, "examples")

\* C17: an array fragment for volumes, interfaces or security_groups has the
\* domain's description in place of the generic one and the domain's
\* examples; a union fragment for volumes has the generic description
\* followed by an example and no examples key; every other array or union
\* fragment, the ones for flavors, networks, instances, projects and
\* regions among them, has the generic description and no examples key.
C17_EnrichedPerDomainTable ==
    (ProducedArray \/ ProducedUnion)
        => LET description == DictGet(sel.result, "description", "")
           IN  IF ProducedArray /\ sel.param_name \in {"volumes", "interfaces", "security_groups"}
               THEN /\ description # GenericDescription
                    /\ StartsWith(description, "List of ")
                    /\ HasKey(sel.result, "examples")
                    /\ DictGet(sel.result, "examples", <<>>) # <<>>
               ELSE IF ProducedUnion /\ sel.param_name = "volumes"
               THEN /\ description # GenericDescription
                    /\ StartsWith(description, GenericDescription \o ". Example")
                    /\ ~HasKey(sel.result, "examples")
               ELSE /\ description = GenericDescription
                    /\ ~HasKey(sel.result, "examples")

C17_Witness ==
    /\ sel.op = "schema"
    /\ sel.param_type = Generic("list", "list", <<MockVolumeSpec>>)
    /\ sel.param_name = "volumes"
    /\ Len(DictGet(sel.result, "examples", <<>>)) = 2
    /\ DictGet(sel.result, "description", "") # "Array of MockVolumeSpec"

(***************************************************************************)
(* Properties of the registration of the tools.                            *)
(***************************************************************************)

\* C11: any two registered tools with distinct full method names have
\* distinct shortened names and distinct transport identifiers.
C11_RegisteredNamesDistinct ==
    \A i, j \in 1..Len(tools) :
        tools[i].full_name # tools[j].full_name
            => /\ generate_short_tool_name(tools[i].full_name, MAX_TOOL_NAME_LEN)
                      # generate_short_tool_name(tools[j].full_name,
                                                 MAX_TOOL_NAME_LEN)
               /\ tools[i].tool_name # tools[j].tool_name

\* the annotation a registered tool carries for a parameter
Carried(tool, param_name) == DictGet(tool.annotations, param_name, Prim("empty"))

\* C18: for every parameter of every registered method the registration
\* carries the schema fragment convert_param_type_to_schema_type gives for
\* the declared type, and the parameter is optional exactly when it has a
\* default.
C18_RegistrationCarriesConvertedSchema ==
    \A i \in 1..Len(tools) :
        \A k \in 1..Len(Signature(tools[i].method_obj).params) :
            LET param == Signature(tools[i].method_obj).params[k] IN
            /\ HasKey(tools[i].annotations, param.name)
            /\ convert_param_type_to_schema_type(Carried(tools[i], param.name),
                                                 param.name)
                   = convert_param_type_to_schema_type(param.annotation,
                                                       param.name)
            /\ (Carried(tools[i], param.name) = Other("str | None", FALSE, ""))
                   <=> param.has_default

\* a dotted name shortened segment by segment and cut to MAX_TOOL_NAME_LEN
Shortened(full_name) ==
    IF Len(ShortSegments(full_name, 1)) > MAX_TOOL_NAME_LEN
    THEN SubSeq(ShortSegments(full_name, 1), 1, MAX_TOOL_NAME_LEN)
    ELSE ShortSegments(full_name, 1)

\* C19: the identifier of every registered tool is the shortened full name
\* with every "." replaced by "_"; its description is the docstring of the
\* method, or "Proxy for `<full name>`" when the method has no docstring (or
\* an empty one).
C19_IdentifierAndDescription ==
    \A i \in 1..Len(tools) :
        LET doc == Signature(tools[i].method_obj).doc IN
        /\ \A c \in 1..Len(tools[i].tool_name) :
               CharAt(tools[i].tool_name, c) # "."
        /\ Len(tools[i].tool_name) = Len(Shortened(tools[i].full_name))
        /\ \A c \in 1..Len(tools[i].tool_name) :
               CharAt(tools[i].tool_name, c)
                   = IF CharAt(Shortened(tools[i].full_name), c) = "." THEN "_"
                     ELSE CharAt(Shortened(tools[i].full_name), c)
        /\ (doc.kind = "str" /\ doc.val # "") => tools[i].description = doc
        /\ (doc = PyNone \/ doc = Py("str", ""))
               => tools[i].description
                      = Py("str", "Proxy for " \o Backtick \o tools[i].full_name
                                      \o Backtick)

C19_Witness ==
    /\ sel.op = "server"
    /\ \E i, j \in 1..Len(tools) :
          /\ tools[i].full_name = "cloud.instances.create"
          /\ tools[i].tool_name = "cloud_insts_new"
          /\ tools[i].description.val
                 = "Create an instance.\n\nThe volumes are created with it."
          /\ tools[j].full_name = "cloud.instances.delete"
          /\ tools[j].tool_name = "cloud_insts_del"
          /\ tools[j].description.val
                 = "Proxy for " \o Backtick \o "cloud.instances.delete" \o Backtick

(***************************************************************************)
(* Properties of the calls of the tools.                                   *)
(***************************************************************************)
\* what the method is to receive for an argument that arrived as item
Expected(item) ==
    IF /\ item.key \in {"volumes", "interfaces", "security_groups"}
       /\ item.val.kind = "str"
       /\ JsonLoads(item.val.val).ok
    THEN JsonLoads(item.val.val).val
    ELSE item.val

\* C20 as stated: every argument of the call reaches the method, decoded
\* from JSON when it is a string named volumes, interfaces or
\* security_groups that decodes, unchanged otherwise.
C20_DecodedOrForwardedUnchanged ==
    sel.op = "invoke"
        => /\ sel.kind \in {"return", "raise"}
           /\ \A k \in 1..Len(sel.kwargs) :
                 /\ HasKey(sel.called_with, sel.kwargs[k].key)
                 /\ DictGet(sel.called_with, sel.kwargs[k].key, PyNone)
                        = Expected(sel.kwargs[k])

\* C20: arguments whose value is None are dropped; every other argument
\* reaches the method, in the order given, decoded from JSON when it is a
\* string named volumes, interfaces or security_groups that decodes,
\* unchanged otherwise, and the method is called whatever the decoding gave.
C20_DecodedOrForwardedUnlessNone ==
    sel.op = "invoke"
        => /\ sel.kind \in {"return", "raise"}
           /\ Len(sel.called_with)
                  = Cardinality({k \in 1..Len(sel.kwargs) :
                                    sel.kwargs[k].val # PyNone})
           /\ \A k \in 1..Len(sel.kwargs) :
                 IF sel.kwargs[k].val = PyNone
                 THEN ~HasKey(sel.called_with, sel.kwargs[k].key)
                 ELSE /\ HasKey(sel.called_with, sel.kwargs[k].key)
                      /\ DictGet(sel.called_with, sel.kwargs[k].key, PyNone)
                             = Expected(sel.kwargs[k])
           /\ sel.kwargs = <<KV("volumes", Py("str", "not json"))>>
                  => sel.called_with = sel.kwargs
           /\ sel.kwargs = <<KV("name", Py("str", "[1, 2]")),
                             KV("count", Py("int", "2"))>>
                  => sel.called_with = sel.kwargs
           /\ sel.kwargs = <<KV("security_groups", Py("str", "[\"default\"]"))>>
                  => sel.called_with
                         = <<KV("security_groups",
                                Py("list", <<Py("str", "default")>>))>>

C20_Witness ==
    /\ sel.op = "invoke"
    /\ sel.tool_name = "cloud_insts_new"
    /\ sel.kwargs
           = <<KV("volumes",
                  Py("str", "[{\"size\": 10, \"source\": \"new-volume\"}]"))>>
    /\ sel.called_with
           = <<KV("volumes",
                  Py("list", <<Py("dict", <<KV("size", Py("int", "10")),
                                            KV("source", Py("str", "new-volume"))>>)>>))>>
    /\ sel.kind = "return"

\* the empty values a caller may provide
EmptyValues == {Py("str", ""), Py("list", <<>>), Py("int", "0")}

\* C21: an argument given None is not handed to the SDK method at all; an
\* argument given an empty value (the empty string, an empty list, zero) is
\* handed to it as given, under its name.
C21_AbsentIsNotEmpty ==
    sel.op = "invoke"
        => \A k \in 1..Len(sel.kwargs) :
              /\ sel.kwargs[k].val = PyNone
                     => \A c \in 1..Len(sel.called_with) :
                            sel.called_with[c].key # sel.kwargs[k].key
              /\ sel.kwargs[k].val \in EmptyValues
                     => \E c \in 1..Len(sel.called_with) :
                            sel.called_with[c] = sel.kwargs[k]

C21_Witness ==
    /\ sel.op = "invoke"
    /\ sel.kwargs = <<KV("name", Py("str", "")), KV("count", PyNone)>>
    /\ sel.called_with = <<KV("name", Py("str", ""))>>

(***************************************************************************)
(* More properties of the discovery engine.                                *)
(***************************************************************************)
\* the number of method records of the first n entries of catalog content d
RECURSIVE RecordsBefore(_, _)
RecordsBefore(d, n) ==
    IF n = 0 THEN 0 ELSE RecordsBefore(d, n - 1) + Len(d[n].val)

\* C22: iter_sdk_methods yields one pair for every method record of the
\* catalog and no other, the pair of the j-th method of the i-th resource
\* after those of the resources and methods inserted before it, each pair the
\* resource path, a dot and the method name with the method's handle; the
\* next iteration yields the same sequence.
C22_IterFlattensInOrder ==
    [][ (ret'.op = "iter" /\ ret'.kind = "return") =>
          /\ cache'.present
          /\ Len(ret'.value) = RecordsBefore(cache'.content, Len(cache'.content))
          /\ \A i \in 1..Len(cache'.content) :
                \A j \in 1..Len(cache'.content[i].val) :
                   LET pair == ret'.value[RecordsBefore(cache'.content, i - 1) + j]
                   IN  /\ pair.full_name
                              = Join(<<cache'.content[i].key,
                                       cache'.content[i].val[j].key>>, ".")
                       /\ pair.method_obj
                              = cache'.content[i].val[j].val.method_obj
                       /\ pair.method_obj.name = cache'.content[i].val[j].key
          /\ (ret.op = "iter" /\ ret.kind = "return") => ret'.value = ret.value
      ]_vars

\* a second iteration in a row over a catalog of several resources, one of
\* them with several methods
C22_Witness ==
    /\ ret.op = "iter" /\ ret.kind = "return" /\ ~ret.walked
    /\ calls >= 2
    /\ Len(cache.content) >= 2
    /\ Len(cache.content[1].val) >= 2
    /\ Len(ret.value) > Len(cache.content)
    /\ ret.value[1].full_name = "cloud.instances.create"
    /\ ret.value[2].full_name = "cloud.instances.list"

\* C23: in every published catalog no method name and no segment of a
\* resource path begins with an underscore.
C23_NoUnderscoreNames ==
    cache.present =>
        /\ \A seg \in PathSegments(cache.content) : CharAt(seg, 1) # "_"
        /\ \A name \in MethodNames(cache.content) : CharAt(name, 1) # "_"

\* a catalog built from a client with the private attribute _client, whose
\* service and resource carry the private method _update
C23_Witness ==
    /\ cache.present /\ cache.client = "main"
    /\ \E i \in 1..Len(Graph(shape, "main")[0].attrs) :
          Graph(shape, "main")[0].attrs[i].name = "_client"
    /\ \E i \in 1..Len(shape.svcMeths) : shape.svcMeths[i].name = "_update"
    /\ \E i \in 1..Len(shape.resMeths) : shape.resMeths[i].name = "_update"
    /\ <<"cloud", "list">> \in Records(cache.content)
    /\ <<"cloud.instances", "list">> \in Records(cache.content)

\* C29: while a catalog is cached, a call with any client returns that
\* catalog (inspect_sdk_methods the instance itself, iter_sdk_methods its
\* records with handles bound to the client it was built from,
\* get_all_resources its paths) and leaves it in place; the call that builds
\* a catalog, the cache being absent, builds it from its own client.
C29_CatalogIndependentOfClient ==
    [][ ret'.op \in CallOps =>
          /\ cache.present =>
                /\ ret'.kind = "return"
                /\ cache' = cache
                /\ ret'.op = "inspect" => ret'.value = cache
                /\ ret'.op = "iter" =>
                      /\ { <<ret'.value[k].full_name, ret'.value[k].method_obj.name>>
                             : k \in 1..Len(ret'.value) }
                           = { <<Join(<<r[1], r[2]>>, "."), r[2]>>
                                 : r \in Records(cache.content) }
                      /\ \A k \in 1..Len(ret'.value) :
                            ret'.value[k].method_obj.client = cache.client
                /\ ret'.op = "get_all_resources" =>
                      ret'.value = [i \in 1..Len(cache.content) |->
                                       cache.content[i].key]
          /\ (~cache.present /\ ret'.kind = "return") =>
                cache'.client = ret'.client
      ]_vars

\* the pairs of the main client's catalog, handed to a caller that passed
\* the other client
C29_Witness ==
    /\ ret.op = "iter" /\ ret.kind = "return"
    /\ ret.client = "other"
    /\ cache.present /\ cache.client = "main"
    /\ Len(ret.value) > 0
    /\ \A k \in 1..Len(ret.value) : ret.value[k].method_obj.client = "main"

\* module is the package base or one of its submodules
InBasePackage(module, base) ==
    /\ module.res = "ok"
    /\ \/ module.name = base
       \/ /\ Len(module.name) > Len(base)
          /\ SubSeq(module.name, 1, Len(base) + 1) = base \o "."

\* C27: every method of a published catalog is bound to an object whose
\* class is defined in the base package of the client's class, the package
\* itself or a submodule of it; objects of unknown modules and of other
\* packages, those whose name only starts with the same characters
\* included, contribute nothing.
C27_OnlySdkNamespaceObjects ==
    cache.present =>
        \A i \in 1..Len(cache.content) :
            \A j \in 1..Len(cache.content[i].val) :
                InBasePackage(
                    Graph(shape, cache.client)
                        [cache.content[i].val[j].val.method_obj.node].module,
                    BaseModuleName(Graph(shape, cache.client)))

\* no member met in graph g fails to resolve
NoFailures(g) ==
    /\ g[0].module.res # "raises"
    /\ \A n \in DOMAIN g :
          /\ \A i \in 1..Len(g[n].attrs) : g[g[n].attrs[i].to].module.res # "raises"
          /\ \A i \in 1..Len(g[n].methods) : g[n].methods[i].raises = "none"

\* the nodes the attributes of the nodes S lead to, in any number of steps
RECURSIVE Descendants(_, _)
Descendants(g, S) ==
    LET step == { a \in DOMAIN g : \E n \in S : \E i \in 1..Len(g[n].attrs) :
                                      g[n].attrs[i].to = a }
    IN  IF step \subseteq S THEN S ELSE Descendants(g, S \cup step)

\* no object of graph g is reached from itself
Acyclic(g) ==
    \A n \in DOMAIN g :
        n \notin Descendants(g, { g[n].attrs[i].to : i \in 1..Len(g[n].attrs) })

\* the records of the node n reached under path and of the nodes below it:
\* its public methods off the denylist, and the same for every public
\* attribute off the denylist that holds an object of the base package
RECURSIVE ChainRecords(_, _, _, _)
ChainRecords(g, n, path, base) ==
    { <<path, g[n].methods[i].name>> :
        i \in { k \in 1..Len(g[n].methods) :
                  /\ CharAt(g[n].methods[k].name, 1) # "_"
                  /\ g[n].methods[k].name \notin skip_names } }
    \cup UNION { ChainRecords(g, g[n].attrs[i].to,
                              Join(<<path, g[n].attrs[i].name>>, "."), base) :
                 i \in { k \in 1..Len(g[n].attrs) :
                           /\ CharAt(g[n].attrs[k].name, 1) # "_"
                           /\ g[n].attrs[k].name \notin skip_names
                           /\ InBasePackage(g[g[n].attrs[k].to].module, base) } }

\* the records of the services of the client of graph g
ExpectedRecords(g) ==
    UNION { ChainRecords(g, g[0].attrs[i].to, g[0].attrs[i].name,
                         BaseModuleName(g)) :
            i \in { k \in 1..Len(g[0].attrs) :
                      /\ CharAt(g[0].attrs[k].name, 1) # "_"
                      /\ g[0].attrs[k].name \notin skip_top_level
                      /\ InBasePackage(g[g[0].attrs[k].to].module,
                                       BaseModuleName(g)) } }

\* C28: for a client whose members all resolve, the catalog holds the record
\* (path, m) exactly when m is a public method off the denylist of the node
\* reached from a service by a chain of public attributes off the denylist
\* that hold objects of the SDK namespace, the service itself included.
C28_CatalogIsExactlyTheReachableMethods ==
    (ret.op = "inspect" /\ ret.kind = "return" /\ ret.walked
        /\ NoFailures(Graph(shape, ret.client))
        /\ Acyclic(Graph(shape, ret.client)))
        => Records(ret.value.content) = ExpectedRecords(Graph(shape, ret.client))

\* the objects met along the resource path segs of graph g from its k-th
\* segment on, n being the object the segments before it lead to
RECURSIVE ObjectsAlong(_, _, _, _)
ObjectsAlong(g, n, segs, k) ==
    IF k > Len(segs) THEN <<>>
    ELSE LET to == (CHOOSE i \in 1..Len(g[n].attrs) :
                        g[n].attrs[i].name = segs[k])
         IN  <<g[n].attrs[to].to>> \o ObjectsAlong(g, g[n].attrs[to].to, segs, k + 1)

\* C26: every inspect_sdk_methods call ends, and no resource path of a
\* published catalog passes through the same object twice, whatever
\* references the objects hold to each other.
C26_TraversalAvoidsCycles ==
    cache.present =>
        \A i \in 1..Len(cache.content) :
            LET objects == ObjectsAlong(Graph(shape, cache.client), 0,
                                        Split(cache.content[i].key, "."), 1)
            IN  \A a, b \in 1..Len(objects) : a # b => objects[a] # objects[b]

\* C24: the cache is assigned only after a complete traversal: in every
\* state the cache is absent or holds the whole catalog of the client it was
\* built from; a pass that an exception aborts leaves the cache as it was;
\* and a caller that finds the cache absent starts a traversal of its own
\* from an empty catalog.
C24_CacheHoldsOnlyCompleteCatalogs ==
    /\ [](cache.present =>
            /\ Traverse(Graph(shape, cache.client), cache.client).exc = "none"
            /\ cache.content
                 = Traverse(Graph(shape, cache.client), cache.client).dict)
    /\ [][\A t \in Callers :
            /\ (callers[t].pc = "walking" /\ callers'[t].pc = "raised")
                  => cache' = cache
            /\ (callers[t].pc = "idle" /\ callers'[t].pc # "idle"
                    /\ ~cache.present)
                  => /\ callers'[t].pc \in {"walking", "raised"}
                     /\ callers'[t].inspected_methods = EmptyDict
                     /\ callers'[t].pc = "walking" => callers'[t].i = 1]_vars

\* a pass was aborted with a part of the catalog built, the cache is absent
\* and the next caller is at the start of its own traversal
C24_Witness ==
    \E t, u \in Callers :
        /\ ~cache.present
        /\ callers[t].pc = "raised"
        /\ callers[t].inspected_methods # EmptyDict
        /\ callers[u].pc = "walking"
        /\ callers[u].i = 1
        /\ callers[u].inspected_methods = EmptyDict

\* C25: of the callers that enter inspect_sdk_methods together while the
\* cache is absent at most one traversal populates the cache, and the
\* callers that have returned hold the same catalog instance.
C25_OneTraversalPerEpoch ==
    /\ walks <= 1
    /\ \A t, u \in Callers :
          (callers[t].pc = "returned" /\ callers[u].pc = "returned")
              => callers[t].value = callers[u].value

\* the full names the known toolsets among toolset_names list, as
\* get_raw_toolsets gives them, before any shortening
RECURSIVE RawToolsetTools(_)
RawToolsetTools(toolset_names) ==
    IF Len(toolset_names) = 0 THEN <<>>
    ELSE (IF HasKey(get_raw_toolsets, toolset_names[1])
          THEN DictGet(get_raw_toolsets, toolset_names[1], <<>>)
          ELSE <<>>)
         \o RawToolsetTools(Tail(toolset_names))

\* C30: every registered tool is a method of the catalog whose full name an
\* active toolset lists, before shortening, or a configured pattern matches;
\* no method outside the configured selection is registered.
C30_OnlySelectedMethodsRegistered ==
    LET cfg == get_unified_tool_config(env)
        members == SeqRange(RawToolsetTools(EffectiveToolsetNames(cfg, env)))
    IN  \A i \in 1..Len(tools) :
            /\ \E k \in 1..Len(ret.value) :
                  ret.value[k].full_name = tools[i].full_name
            /\ \/ tools[i].full_name \in members
               \/ \E k \in 1..Len(cfg.pattern_filters) :
                     PatternSelects(cfg.pattern_filters[k], tools[i].full_name)

====
